---- MODULE Spec2Model ----
(***************************************************************************)
(* Model of acestep/diffusion_core.py: the variant registry, the           *)
(* TimestepScheduler and the generate_audio_core diffusion loop.           *)
(*                                                                         *)
(* Scalars (timesteps, shifts, strengths) are exact rationals <<n, d>>     *)
(* with d > 0, kept in lowest terms.  Tensors are represented by the       *)
(* expression that produced them and by their batch (leading) dimension.   *)
(***************************************************************************)
EXTENDS Integers, Sequences, FiniteSets, TLC

(* ------------------------------------------------------------------ *)
(* Bounds of the model                                                 *)
(* ------------------------------------------------------------------ *)
MaxSteps == 2
MaxSchedSteps == 4
MaxTasks == 3
MaxLatents == 2
MaxClock == 4
MaxStages == 2

(* ------------------------------------------------------------------ *)
(* Exact rational arithmetic                                           *)
(* ------------------------------------------------------------------ *)
Abs(n) == IF n < 0 THEN -n ELSE n

RECURSIVE GCD(_, _)
GCD(a, b) == IF b = 0 THEN a ELSE GCD(b, a % b)

Rat(n, d) ==
    LET s == IF d < 0 THEN -1 ELSE 1
        g == GCD(Abs(n), Abs(d))
    IN  <<(s * n) \div g, (s * d) \div g>>

RInt(n) == <<n, 1>>
Zero == RInt(0)
One == RInt(1)
\* Sums and comparisons go through the common denominator, so that values
\* a millionth apart stay within the integer range.
RAdd(a, b) ==
    LET g == GCD(a[2], b[2])
    IN  Rat(a[1] * (b[2] \div g) + b[1] * (a[2] \div g), (a[2] \div g) * b[2])
RSub(a, b) == RAdd(a, <<-b[1], b[2]>>)
RMul(a, b) == Rat(a[1] * b[1], a[2] * b[2])
RDiv(a, b) == Rat(a[1] * b[2], a[2] * b[1])
RLe(a, b) ==
    LET g == GCD(a[2], b[2])
    IN  a[1] * (b[2] \div g) <= b[1] * (a[2] \div g)
RLt(a, b) == ~RLe(b, a)
RAbs(a) == <<Abs(a[1]), a[2]>>
RMin(a, b) == IF RLe(a, b) THEN a ELSE b
RMax(a, b) == IF RLe(a, b) THEN b ELSE a
\* int(x): truncation toward zero
RTrunc(a) == IF a[1] >= 0 THEN a[1] \div a[2] ELSE -((-a[1]) \div a[2])

\* Optional values (Python None)
Some(v) == [some |-> TRUE, v |-> v]
NoneOf(d) == [some |-> FALSE, v |-> d]
NoneRat == NoneOf(Zero)
NoneInt == NoneOf(0)
NoneSeq == NoneOf(<<>>)
NoneStr == NoneOf("")
NoneRange == NoneOf(<<Zero, Zero>>)

Eps == Rat(1, 1000000)

(* ------------------------------------------------------------------ *)
(* Variant registry                                                    *)
(* ------------------------------------------------------------------ *)
VariantConfig(cfg, mode, dshift, fshift, dsteps, sdelin, custom, range) ==
    [use_cfg |-> cfg, timestep_mode |-> mode, default_shift |-> dshift,
     forced_shift |-> fshift, default_steps |-> dsteps,
     sde_renoise_linear |-> sdelin, custom_timesteps |-> custom,
     shift_range |-> range]

VariantNames ==
    {"acestep-v15-base", "acestep-v15-sft", "acestep-v15-turbo",
     "acestep-v15-turbo-shift1", "acestep-v15-turbo-shift3",
     "acestep-v15-turbo-continuous"}

MODEL_VARIANT_CONFIGS ==
    [n \in VariantNames |->
      CASE n = "acestep-v15-base" ->
             VariantConfig(TRUE, "linear", One, NoneRat, 30, TRUE, "none", NoneRange)
        [] n = "acestep-v15-sft" ->
             VariantConfig(TRUE, "linear", One, NoneRat, 30, TRUE, "with_terminal", NoneRange)
        [] n = "acestep-v15-turbo" ->
             VariantConfig(FALSE, "discrete", RInt(3), NoneRat, 8, FALSE, "map_nearest", NoneRange)
        [] n = "acestep-v15-turbo-shift1" ->
             VariantConfig(FALSE, "linear", One, NoneRat, 8, FALSE, "with_terminal", NoneRange)
        [] n = "acestep-v15-turbo-shift3" ->
             VariantConfig(FALSE, "linear", One, Some(RInt(3)), 8, FALSE, "with_terminal", NoneRange)
        [] n = "acestep-v15-turbo-continuous" ->
             VariantConfig(FALSE, "continuous", RInt(3), NoneRat, 8, FALSE, "strip_zeros",
                           Some(<<One, RInt(5)>>))]

NoConfig == VariantConfig(FALSE, "", Zero, NoneRat, 0, FALSE, "", NoneRange)

(* ------------------------------------------------------------------ *)
(* Pre-defined turbo schedules                                         *)
(* ------------------------------------------------------------------ *)
TURBO_VALID_SHIFTS == <<RInt(1), RInt(2), RInt(3)>>

TURBO_VALID_TIMESTEPS ==
    <<Rat(1, 1), Rat(21, 22), Rat(14, 15), Rat(9, 10), Rat(7, 8),
      Rat(6, 7), Rat(5, 6), Rat(10, 13), Rat(3, 4),
      Rat(2, 3), Rat(9, 14), Rat(5, 8), Rat(6, 11),
      Rat(1, 2), Rat(2, 5), Rat(3, 8), Rat(3, 10), Rat(1, 4), Rat(2, 9), Rat(1, 8)>>

TURBO_SHIFT_TIMESTEPS(shift) ==
    CASE shift = RInt(1) ->
           <<Rat(1, 1), Rat(7, 8), Rat(3, 4), Rat(5, 8), Rat(1, 2), Rat(3, 8), Rat(1, 4), Rat(1, 8)>>
      [] shift = RInt(2) ->
           <<Rat(1, 1), Rat(14, 15), Rat(6, 7), Rat(10, 13), Rat(2, 3), Rat(6, 11), Rat(2, 5), Rat(2, 9)>>
      [] shift = RInt(3) ->
           <<Rat(1, 1), Rat(21, 22), Rat(9, 10), Rat(5, 6), Rat(3, 4), Rat(9, 14), Rat(1, 2), Rat(3, 10)>>

(* ------------------------------------------------------------------ *)
(* TimestepScheduler                                                   *)
(* ------------------------------------------------------------------ *)
\* A schedule result: ok = FALSE models a raised ValueError.
Ok(s) == [ok |-> TRUE, sched |-> s, err |-> ""]
Raise(e) == [ok |-> FALSE, sched |-> <<>>, err |-> e]

\* Mutant: the remap runs the other way, t / (shift + (1 - shift) * t).
ShiftRemap_inverse(shift, t) == RDiv(t, RAdd(shift, RMul(RSub(One, shift), t)))

\* shift * t / (1 + (shift - 1) * t)
ShiftRemap(shift, t) == RDiv(RMul(shift, t), RAdd(One, RMul(RSub(shift, One), t)))

\* torch.linspace(1.0, 0.0, n): n points, a single point is the start value
Linspace10(n) ==
    IF n = 1 THEN <<One>>
    ELSE [i \in 1..n |-> Rat(n - i, n - 1)]

\* Mutant: among elements of equal distance the last one wins.
RECURSIVE MinScan_last(_, _, _, _)
MinScan_last(seq, v, i, b) ==
    IF i > Len(seq) THEN seq[b]
    ELSE IF RLe(RAbs(RSub(seq[i], v)), RAbs(RSub(seq[b], v)))
         THEN MinScan_last(seq, v, i + 1, i)
         ELSE MinScan_last(seq, v, i + 1, b)

\* One pass of min(): keeps the first element of minimal distance; b is the
\* index of the best element before index i.
RECURSIVE MinScan(_, _, _, _)
MinScan(seq, v, i, b) ==
    IF i > Len(seq) THEN seq[b]
    ELSE IF RLt(RAbs(RSub(seq[i], v)), RAbs(RSub(seq[b], v)))
         THEN MinScan(seq, v, i + 1, i)
         ELSE MinScan(seq, v, i + 1, b)

\* min(seq, key=lambda x: abs(x - v))
NearestIn(seq, v) == MinScan(seq, v, 2, 1)

_linear(num_steps, shift) ==
    LET t == Linspace10(num_steps + 1)
    IN  IF shift # One
        THEN [i \in 1..Len(t) |-> ShiftRemap(shift, t[i])]
        ELSE t

\* Mutant: the fallback for a step count other than 8 ignores the shift.
_discrete_unshifted(shift, num_steps, scheduler_explicit) ==
    IF num_steps # 8
    THEN IF scheduler_explicit
         THEN Raise("ValueError: discrete scheduler only supports 8 steps")
         ELSE Ok(_linear(num_steps, One))
    ELSE Ok(TURBO_SHIFT_TIMESTEPS(NearestIn(TURBO_VALID_SHIFTS, shift)) \o <<Zero>>)

_discrete(shift, num_steps, scheduler_explicit) ==
    IF num_steps # 8
    THEN IF scheduler_explicit
         THEN Raise("ValueError: discrete scheduler only supports 8 steps")
         ELSE Ok(_linear(num_steps, shift))
    ELSE Ok(TURBO_SHIFT_TIMESTEPS(NearestIn(TURBO_VALID_SHIFTS, shift)) \o <<Zero>>)

\* Mutant: the shift is not clamped into shift_range.
_continuous_unclamped(num_steps, shift, config) ==
    [i \in 1..num_steps |-> ShiftRemap(shift, Rat(num_steps - (i - 1), num_steps))]
        \o <<Zero>>

\* Mutant: the terminal 0.0 is not appended.
_continuous_no_terminal(num_steps, shift, config) ==
    [i \in 1..num_steps |-> ShiftRemap(shift, Rat(num_steps - (i - 1), num_steps))]

_continuous(num_steps, shift, config) ==
    LET lo == config.shift_range.v[1]
        hi == config.shift_range.v[2]
        s  == IF config.shift_range.some /\ (RLt(shift, lo) \/ RLt(hi, shift))
              THEN RMax(lo, RMin(hi, shift))
              ELSE shift
        linear_ts == [i \in 1..num_steps |-> Rat(num_steps - (i - 1), num_steps)]
        shifted == [i \in 1..num_steps |-> ShiftRemap(s, linear_ts[i])]
    IN  shifted \o <<Zero>>

\* Mutant: a single trailing zero is removed.
StripTrailingZeros_once(ts) ==
    IF Len(ts) > 0 /\ ts[Len(ts)] = Zero
    THEN SubSeq(ts, 1, Len(ts) - 1)
    ELSE ts

\* while ts_list and ts_list[-1] == 0: ts_list.pop()
RECURSIVE StripTrailingZeros(_)
StripTrailingZeros(ts) ==
    IF Len(ts) > 0 /\ ts[Len(ts)] = Zero
    THEN StripTrailingZeros(SubSeq(ts, 1, Len(ts) - 1))
    ELSE ts

\* Mutant: a one-entry sequence is accepted.
TooShort_empty(ts_list) == Len(ts_list) < 1

\* if len(ts_list) < 2: return None
TooShort(ts_list) == Len(ts_list) < 2

\* Mutant: a terminal 0.0 is appended to a sequence that has its own.
AsIs_append(ts_list) == ts_list \o <<Zero>>

\* return torch.tensor(ts_list, ...): the sequence as it was given
AsIs(ts_list) == ts_list

\* Mutant: no limit on the number of entries.
Cut20_unlimited(ts_list) == ts_list

\* if len(ts_list) > 20: ts_list = ts_list[:20]
Cut20(ts_list) == IF Len(ts_list) > 20 THEN SubSeq(ts_list, 1, 20) ELSE ts_list

\* Returns an optional schedule: none when the timesteps are invalid.
_try_custom(config, timesteps) ==
    IF config.custom_timesteps = "with_terminal"
    THEN IF TooShort(timesteps) THEN NoneSeq ELSE Some(AsIs(timesteps))
    ELSE LET stripped == StripTrailingZeros(timesteps)
             cut == Cut20(stripped)
             mapped == [i \in 1..Len(cut) |-> NearestIn(TURBO_VALID_TIMESTEPS, cut[i])]
         IN  IF Len(stripped) = 0 THEN NoneSeq
             ELSE IF config.custom_timesteps = "map_nearest"
                  THEN Some(mapped \o <<Zero>>)
                  ELSE Some(stripped \o <<Zero>>)

\* Mutant: the caller's shift is used even when the variant forces one.
EffectiveShift_caller(config, shift_in) == shift_in

\* if config.forced_shift is not None: shift = config.forced_shift
EffectiveShift(config, shift_in) ==
    IF config.forced_shift.some THEN config.forced_shift.v ELSE shift_in

\* Mutant: user timesteps are never looked at.
UseCustom_never(config, timesteps) == FALSE

\* Mutant: the variant's custom_timesteps mode is not consulted.
UseCustom_any_mode(config, timesteps) == timesteps.some

\* if timesteps is not None and config.custom_timesteps != "none"
UseCustom(config, timesteps) == timesteps.some /\ config.custom_timesteps # "none"

\* TimestepScheduler.compute(config, num_steps, shift, timesteps, scheduler_explicit)
compute(config, num_steps, shift_in, timesteps, scheduler_explicit) ==
    LET shift == EffectiveShift(config, shift_in)
        custom == IF UseCustom(config, timesteps)
                  THEN _try_custom(config, timesteps.v)
                  ELSE NoneSeq
    IN  IF custom.some THEN Ok(custom.v)
        ELSE IF config.timestep_mode = "discrete"
             THEN _discrete(shift, num_steps, scheduler_explicit)
             ELSE IF config.timestep_mode = "continuous"
                  THEN Ok(_continuous(num_steps, shift, config))
                  ELSE Ok(_linear(num_steps, shift))

\* Mutant: the terminal entry takes part in the search for the start.
truncate_with_terminal(schedule, t_start) ==
    LET n == Len(schedule)
        hit == {i \in 1..n : RLe(schedule[i], RAdd(t_start, Eps))}
        start_idx == CHOOSE i \in hit : \A j \in hit : i <= j
    IN  IF RLe(RSub(One, Eps), t_start) THEN schedule
        ELSE IF hit = {} THEN schedule
             ELSE SubSeq(schedule, start_idx, n)

\* Mutant: the result starts after the first entry <= t_start.
truncate_after(schedule, t_start) ==
    LET n == Len(schedule)
        hit == {i \in 1..(n - 1) : RLe(schedule[i], RAdd(t_start, Eps))}
        start_idx == CHOOSE i \in hit : \A j \in hit : i <= j
    IN  IF RLe(RSub(One, Eps), t_start) THEN schedule
        ELSE IF hit = {} THEN schedule
             ELSE SubSeq(schedule, start_idx + 1, n)

\* TimestepScheduler.truncate(schedule, t_start)
truncate(schedule, t_start) ==
    LET n == Len(schedule)
        hit == {i \in 1..(n - 1) : RLe(schedule[i], RAdd(t_start, Eps))}
        start_idx == CHOOSE i \in hit : \A j \in hit : i <= j
    IN  IF RLe(RSub(One, Eps), t_start) THEN schedule
        ELSE IF hit = {} THEN schedule
             ELSE SubSeq(schedule, start_idx, n)

(* ------------------------------------------------------------------ *)
(* State                                                               *)
(* ------------------------------------------------------------------ *)
VARIABLES
    _guidance_module,               \* module-level plugin cache (TRUE = loaded)
    registry,                       \* the module-level dict MODEL_VARIANT_CONFIGS
    pc,                             \* position in generate_audio_core
    req,                            \* the keyword arguments of the call
    config, shift, infer_steps,     \* resolved variant config and defaults
    attention_mask,
    encoder_hidden_states, encoder_attention_mask, context_latents,
    encoder_hidden_states_non_cover, encoder_attention_mask_non_cover,
    context_latents_non_cover,
    schedule, num_steps, cover_steps,
    xt, do_cfg_guidance, past_key_values, cover_cfg_doubled, step_idx,
    vt,
    decoder_call,                   \* arguments of the latest model.decoder call
    renoise_call,                   \* arguments of the latest model.renoise call
    calls,                          \* number of calls made to each collaborator
    result, error,                  \* returned dict / raised exception
    s_pc, s_in, s_out,              \* direct calls of TimestepScheduler
    s_trunc,                        \* t_start and what truncate returned for s_out
    _tasks,                         \* TaskManager._tasks, in order of creation
    _executor,                      \* the single-worker ThreadPoolExecutor
    request_pc,                     \* position of each request-handler thread
    request_task,                   \* the task a handler's submit call has created
    ws_pc,                          \* position of each websocket's endpoint coroutine
    _global_connections,            \* websockets registered for every task
    _ws_connections,                \* websockets registered per task id
    last_broadcast,                 \* the latest message _broadcast_sync has sent
    _env,                           \* LatentStore: the LMDB records by latent id
    files,                          \* latent ids whose tensor file is on disk
    clock,                          \* time.time(), in ticks
    cleanup_pc,                     \* position of the cleanup thread
    now,                            \* the cleanup pass's reading of the clock
    expired_paths,                  \* the cleanup pass's list of files to remove
    pl_body,                        \* POST /pipeline: the stages of the request body
    pl_stages,                      \* req.stages, the parsed PipelineStageConfig list
    pl_pc,                          \* position of the pipeline request
    pl_idx,                         \* run_pipeline: index of the stage to run
    stage_latents,                  \* run_pipeline: stage indices with a stored latent
    pl_read,                        \* run_pipeline: the stage latent last read
    pl_error                        \* the exception that ended the request

condVars == <<encoder_hidden_states, encoder_attention_mask, context_latents>>
ncVars == <<encoder_hidden_states_non_cover, encoder_attention_mask_non_cover,
            context_latents_non_cover>>
schedVars == <<schedule, num_steps, cover_steps>>
resolvedVars == <<config, shift, infer_steps>>
loopVars == <<xt, do_cfg_guidance, past_key_values, cover_cfg_doubled, step_idx,
              vt, decoder_call, renoise_call>>
sVars == <<s_pc, s_in, s_out, s_trunc>>
coreVars == <<_guidance_module, registry, pc, req, resolvedVars, attention_mask,
              condVars, ncVars, schedVars, loopVars, calls, result, error>>
wsVars == <<ws_pc, _global_connections, _ws_connections, last_broadcast>>
svcVars == <<_tasks, _executor, request_pc, request_task, wsVars>>
latVars == <<_env, files, clock, cleanup_pc, now, expired_paths>>
plVars == <<pl_body, pl_stages, pl_pc, pl_idx, stage_latents, pl_read, pl_error>>
vars == <<coreVars, registry, sVars, svcVars, latVars, plVars>>

(* ------------------------------------------------------------------ *)
(* Tensors                                                             *)
(* ------------------------------------------------------------------ *)
\* A batched tensor: what it holds and its leading dimension.
Tensor(src, batch) == [src |-> src, batch |-> batch, tail |-> "none"]
NoTensor == Tensor("none", 0)
\* torch.cat([a, b], dim=0): b becomes the second half of the batch
Cat(a, b) == [a EXCEPT !.batch = 2 * @, !.tail = b]

\* Latents and predictions are the expressions that computed them.
InitLatents == [op |-> "init_latents"]
PrepareNoise(seed) == [op |-> "prepare_noise", seed |-> seed]
NoLatent == [op |-> "none"]
\* model.get_x0_from_noise(xt, vt, t)
GetX0(x, v, t) == [op |-> "get_x0_from_noise", x |-> x, v |-> v, t |-> t]
\* model.renoise(pred_clean, next_t)
Renoise(x, t) == [op |-> "renoise", x |-> x, t |-> t]
\* xt - vt * dt
OdeStep(x, v, dt) == [op |-> "xt - vt * dt", x |-> x, v |-> v, dt |-> dt]
\* decoder_outputs[0] of the n-th decoder invocation
Pred(n) == [op |-> "decoder", call |-> n]
PredCond(n) == [op |-> "decoder.chunk[0]", call |-> n]
PredNull(n) == [op |-> "decoder.chunk[1]", call |-> n]
Guided(fn, n, scale) ==
    [op |-> fn, cond |-> PredCond(n), uncond |-> PredNull(n), scale |-> scale]
NoPred == [op |-> "none"]

NoCall == [step |-> -1]
NoCalls ==
    [prepare_condition |-> 0, prepare_noise |-> 0, load_guidance |-> 0,
     exec_module |-> 0, null_expand |-> 0, non_cover_doubling |-> 0,
     decoder |-> 0, get_x0_from_noise |-> 0, renoise |-> 0, guidance |-> 0]

NoRequest == [variant |-> ""]

(* ------------------------------------------------------------------ *)
(* Inputs                                                              *)
(* ------------------------------------------------------------------ *)
UnknownVariant == "acestep-v15-large"
StepChoices == {NoneInt} \cup {Some(n) : n \in (0..MaxSteps) \cup {8}}
ShiftChoices == {NoneRat, Some(RInt(2))}
OverrideChoices == {NoneStr, Some("linear"), Some("discrete")}
TimestepChoices == {NoneSeq}
UserTimesteps == {Some(<<One, Rat(1, 2), Rat(1, 4), Zero>>)}
StartChoices == {One, Rat(1, 2)}
CoverChoices == {One, Rat(1, 2), Zero}
GuidanceChoices == {One, RInt(2)}
MethodChoices == {"ode", "sde"}
BatchChoices == {2}
IntervalChoices == {<<Zero, One>>, <<Rat(3, 10), Rat(3, 5)>>}

Request(variant, override, sh, steps, ts, init, t_start, cover, scale, adg, interval, method, bsz) ==
    [variant |-> variant, scheduler_override |-> override, shift |-> sh,
     infer_steps |-> steps, timesteps |-> ts, init_latents |-> init,
     t_start |-> t_start, audio_cover_strength |-> cover,
     diffusion_guidance_sale |-> scale, use_adg |-> adg,
     cfg_interval_start |-> interval[1], cfg_interval_end |-> interval[2],
     infer_method |-> method, bsz |-> bsz]

DefaultRequest(variant) ==
    Request(variant, NoneStr, NoneRat, NoneInt, NoneSeq, FALSE, One, One, One,
            FALSE, <<Zero, One>>, "ode", 1)

\* Calls that pass timesteps=[...]; conditioning and guidance arguments at
\* their defaults.
RequestsWithTimesteps ==
    {Request(v, o, sh, st, ts, i, t0, One, One, FALSE, <<Zero, One>>, m, b) :
        v \in VariantNames, o \in OverrideChoices, sh \in ShiftChoices,
        st \in StepChoices, ts \in UserTimesteps, i \in BOOLEAN,
        t0 \in StartChoices, m \in MethodChoices, b \in BatchChoices}

\* The CFG-only arguments keep their defaults when they cannot be read.
Requests ==
    {DefaultRequest(UnknownVariant)} \cup RequestsWithTimesteps \cup
    {Request(v, o, sh, st, ts, i, t0, c, g, a, iv, m, b) :
        v \in VariantNames, o \in OverrideChoices, sh \in ShiftChoices,
        st \in StepChoices, ts \in TimestepChoices, i \in BOOLEAN,
        t0 \in StartChoices, c \in CoverChoices, g \in GuidanceChoices,
        a \in BOOLEAN, iv \in IntervalChoices, m \in MethodChoices,
        b \in BatchChoices}

CfgArgsRelevant(r) ==
    \/ r.variant \in VariantNames
       /\ MODEL_VARIANT_CONFIGS[r.variant].use_cfg
       /\ RLt(One, r.diffusion_guidance_sale)
    \/ r.use_adg = FALSE /\ r.cfg_interval_start = Zero /\ r.cfg_interval_end = One

(* ------------------------------------------------------------------ *)
(* _load_guidance_module                                               *)
(* ------------------------------------------------------------------ *)
\* Mutant: the cache is not consulted.
LoadGuidanceModule_uncached(cached, file_exists) ==
    IF file_exists THEN [ok |-> TRUE, module |-> TRUE, exec |-> 1]
    ELSE [ok |-> FALSE, module |-> FALSE, exec |-> 0]

\* Outcome of one call: [ok, module (cache afterwards), exec (module executions)]
LoadGuidanceModule(cached, file_exists) ==
    IF cached THEN [ok |-> TRUE, module |-> TRUE, exec |-> 0]
    ELSE IF file_exists THEN [ok |-> TRUE, module |-> TRUE, exec |-> 1]
         ELSE [ok |-> FALSE, module |-> FALSE, exec |-> 0]

(* ------------------------------------------------------------------ *)
(* generate_audio_core                                                 *)
(* ------------------------------------------------------------------ *)
Bump(c, name) == [c EXCEPT ![name] = @ + 1]

\* Mutant: the derived config loses the forced shift.
ApplyOverride_unforced(base, override) ==
    IF override.some /\ override.v \in {"linear", "discrete", "continuous"}
       /\ override.v # base.timestep_mode
    THEN VariantConfig(base.use_cfg, override.v, base.default_shift,
                       NoneRat, base.default_steps,
                       base.sde_renoise_linear, base.custom_timesteps,
                       base.shift_range)
    ELSE base

\* VariantConfig(...) with timestep_mode replaced by the override
ApplyOverride(base, override) ==
    IF override.some /\ override.v \in {"linear", "discrete", "continuous"}
       /\ override.v # base.timestep_mode
    THEN VariantConfig(base.use_cfg, override.v, base.default_shift,
                       base.forced_shift, base.default_steps,
                       base.sde_renoise_linear, base.custom_timesteps,
                       base.shift_range)
    ELSE base

\* Mutant: .get(variant, <turbo config>), unknown names fall back to a default.
LookupVariant_default(name) ==
    IF name \in DOMAIN registry
    THEN Some(registry[name])
    ELSE Some(registry["acestep-v15-turbo"])

\* MODEL_VARIANT_CONFIGS.get(variant)
LookupVariant(name) ==
    IF name \in DOMAIN registry
    THEN Some(registry[name])
    ELSE NoneOf(NoConfig)

\* The caller invokes generate_audio_core(model, **kwargs): variant lookup,
\* scheduler override, default resolution, attention mask.
Call ==
    /\ pc = "idle"
    /\ \E r \in Requests :
         /\ CfgArgsRelevant(r)
         /\ req' = r
         /\ IF ~LookupVariant(r.variant).some
            THEN /\ pc' = "failed"
                 /\ error' = "ValueError: unknown variant"
                 /\ UNCHANGED <<resolvedVars, attention_mask>>
            ELSE LET cfg == ApplyOverride(LookupVariant(r.variant).v, r.scheduler_override)
                 IN  /\ config' = cfg
                     /\ shift' = IF r.shift.some THEN r.shift.v ELSE cfg.default_shift
                     /\ infer_steps' = IF r.infer_steps.some THEN r.infer_steps.v
                                       ELSE cfg.default_steps
                     /\ attention_mask' = Tensor("ones", r.bsz)
                     /\ pc' = "prepare_condition"
                     /\ UNCHANGED error
    /\ UNCHANGED <<_guidance_module, condVars, ncVars, schedVars, loopVars, calls,
                   result, registry, sVars, svcVars, latVars, plVars>>

\* model.prepare_condition for the primary and, when blending, the non-cover set.
PrepareConditions ==
    /\ pc = "prepare_condition"
    /\ encoder_hidden_states' = Tensor("cover", req.bsz)
    /\ encoder_attention_mask' = Tensor("cover", req.bsz)
    /\ context_latents' = Tensor("cover", req.bsz)
    /\ IF RLt(req.audio_cover_strength, One)
       THEN /\ encoder_hidden_states_non_cover' = Tensor("non_cover", req.bsz)
            /\ encoder_attention_mask_non_cover' = Tensor("non_cover", req.bsz)
            /\ context_latents_non_cover' = Tensor("non_cover", req.bsz)
            /\ calls' = [calls EXCEPT !.prepare_condition = @ + 2]
       ELSE /\ encoder_hidden_states_non_cover' = NoTensor
            /\ encoder_attention_mask_non_cover' = NoTensor
            /\ context_latents_non_cover' = NoTensor
            /\ calls' = Bump(calls, "prepare_condition")
    /\ pc' = "build_schedule"
    /\ UNCHANGED <<_guidance_module, req, resolvedVars, attention_mask,
                   schedVars, loopVars, result, error, registry, sVars, svcVars, latVars, plVars>>

\* int(num_steps * audio_cover_strength)
CoverSteps(n, strength) == RTrunc(RMul(RInt(n), strength))

\* Mutant: the schedule is truncated whenever t_start < 1.0.
Truncates_without_latents(init_latents, t_start) == RLt(t_start, One)

\* init_latents is not None and t_start < 1.0
Truncates(init_latents, t_start) == init_latents /\ RLt(t_start, One)

\* TimestepScheduler.compute, truncate, num_steps and cover_steps.
BuildSchedule ==
    /\ pc = "build_schedule"
    /\ LET r == compute(config, infer_steps, shift, req.timesteps,
                        req.scheduler_override.some)
           s == IF Truncates(req.init_latents, req.t_start)
                THEN truncate(r.sched, req.t_start)
                ELSE r.sched
       IN  IF r.ok
           THEN /\ schedule' = s
                /\ num_steps' = Len(s) - 1
                /\ cover_steps' = CoverSteps(Len(s) - 1, req.audio_cover_strength)
                /\ pc' = "initial_latent"
                /\ UNCHANGED error
           ELSE /\ pc' = "failed"
                /\ error' = r.err
                /\ UNCHANGED schedVars
    /\ UNCHANGED <<_guidance_module, req, resolvedVars, attention_mask,
                   condVars, ncVars, loopVars, calls, result, registry, sVars, svcVars, latVars, plVars>>

\* init_latents or model.prepare_noise(context_latents, seed).
InitialLatent ==
    /\ pc = "initial_latent"
    /\ IF req.init_latents
       THEN /\ xt' = InitLatents
            /\ UNCHANGED calls
       ELSE /\ xt' = PrepareNoise("seed")
            /\ calls' = Bump(calls, "prepare_noise")
    /\ pc' = "cfg_setup"
    /\ UNCHANGED <<_guidance_module, req, resolvedVars, attention_mask,
                   condVars, ncVars, schedVars, do_cfg_guidance, past_key_values,
                   cover_cfg_doubled, step_idx, vt, decoder_call, renoise_call,
                   result, error, registry, sVars, svcVars, latVars, plVars>>

\* Mutant: diffusion_guidance_sale >= 1.0.
DoCfgGuidance_ge(cfg, scale) == cfg.use_cfg /\ RLe(One, scale)

\* config.use_cfg and diffusion_guidance_sale > 1.0
DoCfgGuidance(cfg, scale) == cfg.use_cfg /\ RLt(One, scale)

\* CFG setup, KV cache and the loop entry.  os.path.exists reads the
\* filesystem when the plugin is not cached yet.
CfgSetup ==
    /\ pc = "cfg_setup"
    /\ \E file_exists \in BOOLEAN :
       LET cfg == DoCfgGuidance(config, req.diffusion_guidance_sale)
           load == LoadGuidanceModule(_guidance_module, file_exists)
       IN  /\ do_cfg_guidance' = cfg
           /\ IF ~cfg
              THEN /\ pc' = IF num_steps > 0 THEN "loop" ELSE "output"
                   /\ UNCHANGED <<_guidance_module, attention_mask, condVars, calls, error>>
              ELSE /\ _guidance_module' = load.module
                   /\ IF load.ok
                      THEN /\ encoder_hidden_states' = Cat(encoder_hidden_states, "null_emb")
                           /\ encoder_attention_mask' = Cat(encoder_attention_mask, "copy")
                           /\ context_latents' = Cat(context_latents, "copy")
                           /\ attention_mask' = Cat(attention_mask, "copy")
                           /\ calls' = [calls EXCEPT !.load_guidance = @ + 1,
                                                     !.exec_module = @ + load.exec,
                                                     !.null_expand = @ + 1]
                           /\ pc' = IF num_steps > 0 THEN "loop" ELSE "output"
                           /\ UNCHANGED error
                      ELSE /\ calls' = Bump(calls, "load_guidance")
                           /\ pc' = "failed"
                           /\ error' = "ImportError: cannot find apg_guidance.py"
                           /\ UNCHANGED <<attention_mask, condVars>>
    /\ past_key_values' = 0
    /\ cover_cfg_doubled' = FALSE
    /\ step_idx' = 0
    /\ UNCHANGED <<req, resolvedVars, ncVars, schedVars, xt, vt,
                   decoder_call, renoise_call, result, registry, sVars, svcVars, latVars, plVars>>

\* Mutant: reads the entry after the current one.
TCurr_next(sched, idx) == sched[idx + 2]

\* t_curr = schedule[step_idx].item()
TCurr(sched, idx) == sched[idx + 1]

\* Mutant: step_idx > cover_steps.
CoverSwitch_after(idx, csteps, non_cover) == idx > csteps /\ non_cover # NoTensor

\* Mutant: the switch block runs at the switch index only.
CoverSwitch_once(idx, csteps, non_cover) == idx = csteps /\ non_cover # NoTensor

\* step_idx >= cover_steps and encoder_hidden_states_non_cover is not None
CoverSwitch(idx, csteps, non_cover) == idx >= csteps /\ non_cover # NoTensor

\* Mutant: the once-only flag is not consulted.
NeedsNonCoverDoubling_always(cfg, doubled) == cfg

\* Mutant: the non-cover conditioning is never doubled.
NeedsNonCoverDoubling_never(cfg, doubled) == FALSE

\* do_cfg_guidance and not cover_cfg_doubled
NeedsNonCoverDoubling(cfg, doubled) == cfg /\ ~doubled

\* Mutant: the interval is open at both ends.
ApplyCfg_open(r, t_curr) == RLt(r.cfg_interval_start, t_curr) /\ RLt(t_curr, r.cfg_interval_end)

\* cfg_interval_start <= t_curr <= cfg_interval_end
ApplyCfg(r, t_curr) == RLe(r.cfg_interval_start, t_curr) /\ RLe(t_curr, r.cfg_interval_end)

\* Mutant: step_idx == num_steps, the shortcut is never taken.
IsFinalStep_never(idx, n) == idx = n

\* step_idx == num_steps - 1
IsFinalStep(idx, n) == idx = n - 1

\* Mutant: every variant renoises to the schedule value.
SdeNextT_schedule(cfg, idx, n, sched) == sched[idx + 2]

\* next_t of the SDE branch
SdeNextT(cfg, idx, n, sched) ==
    IF cfg.sde_renoise_linear
    THEN RSub(One, Rat(idx + 1, n))
    ELSE sched[idx + 2]

\* Mutant: dt = next_t - t_curr.
OdeDt_reversed(idx, sched) == RSub(sched[idx + 2], sched[idx + 1])

\* dt = t_curr - next_t of the ODE branch
OdeDt(idx, sched) == RSub(TCurr(sched, idx), sched[idx + 2])

\* One iteration of the diffusion loop.
\* The collaborators called inside one iteration, in call order.
LoopCollaborators == <<"decoder", "get_x0_from_noise", "renoise">>
\* Position of the raising call; past the last call when nothing raises.
RaiseAt(raises) == IF raises = "none" THEN 4 ELSE CHOOSE i \in 1..3 : LoopCollaborators[i] = raises

\* The collaborator calls of the iteration at step_idx that come after the
\* decoder call.
GuidanceRuns == do_cfg_guidance /\ ApplyCfg(req, TCurr(schedule, step_idx))
X0Runs == IsFinalStep(step_idx, num_steps) \/ req.infer_method = "sde"
RenoiseRuns == ~IsFinalStep(step_idx, num_steps) /\ req.infer_method = "sde"

\* Mutant: the call that raised is tried again.
Propagate_retry(at) == at

\* No try/except around the collaborator calls: the exception leaves
\* generate_audio_core from the statement at which it was raised.
Propagate(at) == "failed"

\* One iteration of the loop.  raises names the collaborator call that raises
\* in it ("none": the iteration completes): everything before that call has
\* happened, nothing after it does.
Iteration(raises) ==
    /\ pc = "loop"
    /\ raises = "get_x0_from_noise" => X0Runs
    /\ raises = "renoise" => RenoiseRuns
    /\ LET t_curr == TCurr(schedule, step_idx)
           switch == CoverSwitch(step_idx, cover_steps, encoder_hidden_states_non_cover)
           double == switch /\ NeedsNonCoverDoubling(do_cfg_guidance, cover_cfg_doubled)
           ehs_nc == IF double THEN Cat(encoder_hidden_states_non_cover, "null_emb")
                     ELSE encoder_hidden_states_non_cover
           eam_nc == IF double THEN Cat(encoder_attention_mask_non_cover, "copy")
                     ELSE encoder_attention_mask_non_cover
           ctx_nc == IF double THEN Cat(context_latents_non_cover, "copy")
                     ELSE context_latents_non_cover
           ehs == IF switch THEN ehs_nc ELSE encoder_hidden_states
           eam == IF switch THEN eam_nc ELSE encoder_attention_mask
           ctx == IF switch THEN ctx_nc ELSE context_latents
           pkv == IF switch THEN 0 ELSE past_key_values
           in_batch == IF do_cfg_guidance THEN 2 * req.bsz ELSE req.bsz
           n == calls.decoder + 1
           apply_cfg == ApplyCfg(req, t_curr)
           v == IF do_cfg_guidance
                THEN IF apply_cfg
                     THEN Guided(IF req.use_adg THEN "adg_forward" ELSE "apg_forward",
                                 n, req.diffusion_guidance_sale)
                     ELSE PredCond(n)
                ELSE Pred(n)
           final == IsFinalStep(step_idx, num_steps)
           sde == ~final /\ req.infer_method = "sde"
           ode == ~final /\ req.infer_method = "ode"
           next_t == SdeNextT(config, step_idx, num_steps, schedule)
           at == RaiseAt(raises)
           c1 == [calls EXCEPT
                    !.decoder = @ + 1,
                    !.null_expand = @ + (IF double THEN 1 ELSE 0),
                    !.non_cover_doubling = @ + (IF double THEN 1 ELSE 0),
                    !.guidance = @ + (IF at > 1 /\ do_cfg_guidance /\ apply_cfg THEN 1 ELSE 0),
                    !.get_x0_from_noise = @ + (IF at > 1 /\ (final \/ sde) THEN 1 ELSE 0),
                    !.renoise = @ + (IF at > 2 /\ sde THEN 1 ELSE 0)]
       IN  /\ cover_cfg_doubled' = (cover_cfg_doubled \/ double)
           /\ encoder_hidden_states_non_cover' = ehs_nc
           /\ encoder_attention_mask_non_cover' = eam_nc
           /\ context_latents_non_cover' = ctx_nc
           /\ encoder_hidden_states' = ehs
           /\ encoder_attention_mask' = eam
           /\ context_latents' = ctx
           /\ decoder_call' =
                [step |-> step_idx,
                 hidden_states |-> [x |-> xt, batch |-> in_batch],
                 timestep |-> [val |-> t_curr, batch |-> in_batch],
                 attention_mask |-> attention_mask,
                 encoder_hidden_states |-> ehs,
                 encoder_attention_mask |-> eam,
                 context_latents |-> ctx,
                 past_key_values |-> pkv]
           /\ past_key_values' = IF at > 1 THEN pkv + 1 ELSE pkv
           /\ vt' = IF at > 1 THEN v ELSE vt
           /\ calls' = c1
           /\ IF raises # "none"
              THEN /\ pc' = Propagate(pc)
                   /\ error' = raises \o " raised"
                   /\ renoise_call' = IF raises = "renoise"
                                      THEN [step |-> step_idx, t |-> next_t]
                                      ELSE renoise_call
                   /\ UNCHANGED <<xt, step_idx>>
              ELSE /\ UNCHANGED error
                   /\ IF final
                      THEN /\ xt' = GetX0(xt, v, t_curr)
                           /\ UNCHANGED <<renoise_call, step_idx>>
                           /\ pc' = "output"
                      ELSE /\ IF sde
                              THEN /\ xt' = Renoise(GetX0(xt, v, t_curr), next_t)
                                   /\ renoise_call' = [step |-> step_idx, t |-> next_t]
                              ELSE /\ xt' = IF ode THEN OdeStep(xt, v, OdeDt(step_idx, schedule))
                                            ELSE xt
                                   /\ UNCHANGED renoise_call
                           /\ IF step_idx + 1 < num_steps
                              THEN /\ step_idx' = step_idx + 1
                                   /\ pc' = "loop"
                              ELSE /\ UNCHANGED step_idx
                                   /\ pc' = "output"
    /\ UNCHANGED <<_guidance_module, req, resolvedVars, attention_mask,
                   schedVars, do_cfg_guidance, result, registry, sVars, svcVars, latVars, plVars>>

\* An iteration in which no collaborator raises.
LoopStep == Iteration("none")

\* A collaborator of the model raises.  Everything before the raising call has
\* happened; nothing after it does.
CollaboratorRaises ==
    \/ /\ pc = "prepare_condition"
       /\ \E k \in 1..(IF RLt(req.audio_cover_strength, One) THEN 2 ELSE 1) :
             calls' = [calls EXCEPT !.prepare_condition = @ + k]
       /\ error' = "prepare_condition raised"
       /\ pc' = Propagate(pc)
       /\ UNCHANGED <<_guidance_module, req, resolvedVars, attention_mask, condVars,
                      ncVars, schedVars, loopVars, result, registry, sVars, svcVars, latVars, plVars>>
    \/ /\ pc = "initial_latent"
       /\ ~req.init_latents
       /\ calls' = Bump(calls, "prepare_noise")
       /\ error' = "prepare_noise raised"
       /\ pc' = Propagate(pc)
       /\ UNCHANGED <<_guidance_module, req, resolvedVars, attention_mask, condVars,
                      ncVars, schedVars, loopVars, result, registry, sVars, svcVars, latVars, plVars>>
    \/ \E i \in 1..3 : Iteration(LoopCollaborators[i])

\* The returned dict {"target_latents": xt, "time_costs": ...}.
Output ==
    /\ pc = "output"
    /\ result' = xt
    /\ pc' = "done"
    /\ UNCHANGED <<_guidance_module, req, resolvedVars, attention_mask,
                   condVars, ncVars, schedVars, loopVars, calls, error, registry, sVars, svcVars, latVars, plVars>>

\* The call has returned or raised; its locals are gone.
Return ==
    /\ pc \in {"done", "failed"}
    /\ pc' = "idle"
    /\ req' = NoRequest
    /\ config' = NoConfig /\ shift' = Zero /\ infer_steps' = 0
    /\ attention_mask' = NoTensor
    /\ encoder_hidden_states' = NoTensor
    /\ encoder_attention_mask' = NoTensor
    /\ context_latents' = NoTensor
    /\ encoder_hidden_states_non_cover' = NoTensor
    /\ encoder_attention_mask_non_cover' = NoTensor
    /\ context_latents_non_cover' = NoTensor
    /\ schedule' = <<>> /\ num_steps' = 0 /\ cover_steps' = 0
    /\ xt' = NoLatent /\ do_cfg_guidance' = FALSE /\ past_key_values' = 0
    /\ cover_cfg_doubled' = FALSE /\ step_idx' = 0 /\ vt' = NoPred
    /\ decoder_call' = NoCall /\ renoise_call' = NoCall
    /\ calls' = NoCalls /\ result' = NoLatent /\ error' = ""
    /\ UNCHANGED <<_guidance_module, registry, sVars, svcVars, latVars, plVars>>

Blank ==
    /\ pc = "idle"
    /\ req = NoRequest
    /\ config = NoConfig /\ shift = Zero /\ infer_steps = 0
    /\ attention_mask = NoTensor
    /\ encoder_hidden_states = NoTensor
    /\ encoder_attention_mask = NoTensor
    /\ context_latents = NoTensor
    /\ encoder_hidden_states_non_cover = NoTensor
    /\ encoder_attention_mask_non_cover = NoTensor
    /\ context_latents_non_cover = NoTensor
    /\ schedule = <<>> /\ num_steps = 0 /\ cover_steps = 0
    /\ xt = NoLatent /\ do_cfg_guidance = FALSE /\ past_key_values = 0
    /\ cover_cfg_doubled = FALSE /\ step_idx = 0 /\ vt = NoPred
    /\ decoder_call = NoCall /\ renoise_call = NoCall
    /\ calls = NoCalls /\ result = NoLatent /\ error = ""

NoTruncate == [t_start |-> One, sched |-> <<>>]
SchedOff == s_pc = "off" /\ s_in = NoRequest /\ s_out = Ok(<<>>) /\ s_trunc = NoTruncate

\* Request-handler threads of the web server's pool
RequestThreads == {"h1", "h2"}
\* TaskManager(): no task, an idle one-worker executor; no request in progress
WebSockets == {"ws1"}
NoBroadcast == [task_id |-> 0, data |-> [type |-> "none", progress |-> Zero], targets |-> {}]
ServiceIdle ==
    /\ _tasks = <<>>
    /\ _executor = [queue |-> <<>>, taken |-> 0, running |-> {}]
    /\ request_pc = [h \in RequestThreads |-> "idle"]
    /\ request_task = [h \in RequestThreads |-> 0]
    /\ ws_pc = [ws \in WebSockets |-> "closed"]
    /\ _global_connections = {}
    /\ _ws_connections = [id \in 1..MaxTasks |-> {}]
    /\ last_broadcast = NoBroadcast

\* Latent ids in the order store() hands them out
LatentIds == 1..MaxLatents
NoRecord == [present |-> FALSE, pinned |-> FALSE, created_at |-> 0]
\* LatentStore() on an empty directory, cleanup thread between two passes
StoreEmpty ==
    /\ _env = [id \in LatentIds |-> NoRecord]
    /\ files = {}
    /\ clock = 0
    /\ cleanup_pc = "sleep"
    /\ now = 0
    /\ expired_paths = {}

\* No pipeline request has been posted
NoPipeline ==
    /\ pl_body = <<>>
    /\ pl_stages = <<>>
    /\ pl_pc = "idle"
    /\ pl_idx = 0
    /\ stage_latents = {}
    /\ pl_read = NoneInt
    /\ pl_error = ""

\* Module import: the plugin cache is empty.
Init ==
    /\ _guidance_module = FALSE
    /\ registry = MODEL_VARIANT_CONFIGS
    /\ Blank
    /\ SchedOff
    /\ ServiceIdle
    /\ StoreEmpty
    /\ NoPipeline

Next ==
    \/ Call
    \/ PrepareConditions
    \/ BuildSchedule
    \/ InitialLatent
    \/ CfgSetup
    \/ LoopStep
    \/ CollaboratorRaises
    \/ Output
    \/ Return

Spec == Init /\ [][Next]_vars

(* ------------------------------------------------------------------ *)
(* Direct calls of TimestepScheduler.compute and truncate              *)
(* ------------------------------------------------------------------ *)
SchedStepChoices == (0..MaxSchedSteps) \cup {5, 8, 30}
SchedShiftChoices ==
    {Rat(1, 2), One, Rat(3, 2), RInt(2), Rat(5, 2), RInt(3), RInt(6)}
\* 22 evaluation values, two more than map_nearest keeps
LongTimesteps == [i \in 1..22 |-> Rat(23 - i, 23)]
SchedTimestepChoices ==
    {NoneSeq, Some(<<>>), Some(<<Zero>>), Some(<<Rat(1, 2)>>),
     Some(<<One, Rat(1, 2), Zero>>), Some(<<Rat(4, 5), Rat(3, 10), Zero, Zero>>),
     Some(<<Rat(1, 2), One, Rat(1, 4)>>), Some(LongTimesteps)}
\* 0.499999 is within 1e-6 of the schedule entry 0.5
SchedStartChoices == {One, Rat(3, 5), Rat(499999, 1000000), Rat(1, 100)}

SchedInputs ==
    [variant : VariantNames,
     scheduler_override : OverrideChoices \cup {Some("continuous")},
     num_steps : SchedStepChoices, shift : SchedShiftChoices,
     timesteps : SchedTimestepChoices, scheduler_explicit : BOOLEAN]

SchedConfig(in) == ApplyOverride(registry[in.variant], in.scheduler_override)

\* schedule = TimestepScheduler.compute(config, num_steps, shift, timesteps, ...)
SCompute ==
    /\ s_pc = "ready"
    /\ s_out' = compute(SchedConfig(s_in), s_in.num_steps, s_in.shift, s_in.timesteps,
                        s_in.scheduler_explicit)
    /\ s_pc' = "computed"
    /\ UNCHANGED <<coreVars, s_in, s_trunc, svcVars, latVars, plVars>>

\* schedule = TimestepScheduler.truncate(schedule, t_start)
STruncate ==
    /\ s_pc = "computed"
    /\ s_out.ok
    /\ \E t_start \in SchedStartChoices :
         s_trunc' = [t_start |-> t_start, sched |-> truncate(s_out.sched, t_start)]
    /\ s_pc' = "truncated"
    /\ UNCHANGED <<coreVars, s_in, s_out, svcVars, latVars, plVars>>

SchedInit ==
    /\ _guidance_module = FALSE
    /\ registry = MODEL_VARIANT_CONFIGS
    /\ Blank
    /\ s_pc = "ready"
    /\ s_in \in SchedInputs
    /\ s_out = Ok(<<>>)
    /\ s_trunc = NoTruncate
    /\ ServiceIdle
    /\ StoreEmpty
    /\ NoPipeline

SchedNext == SCompute \/ STruncate

SchedSpec == SchedInit /\ [][SchedNext]_vars

(* ------------------------------------------------------------------ *)
(* Service layer: TaskManager and the request handlers using the model *)
(* ------------------------------------------------------------------ *)
\* Task(id=task_id): the dataclass defaults
NewTask == [status |-> "pending", progress |-> Zero, error |-> NoneStr]
SetStatus(tasks, id, status) == [tasks EXCEPT ![id].status = status]
\* progress values a task function reports through update_progress
ProgressChoices == {Rat(1, 2), Rat(23, 25)}

\* Mutant: the progress is left as the task function reported it.
Completed_as_reported(task) == [task EXCEPT !.status = "completed"]

\* fn returned: task.status = COMPLETED, task.progress = 1.0
Completed(task) == [task EXCEPT !.status = "completed", !.progress = One]

\* fn raised e: task.status = ERROR, task.error = str(e)
Failed(task, e) == [task EXCEPT !.status = "error", !.error = Some(e)]
Goto(h, at) == request_pc' = [request_pc EXCEPT ![h] = at]

\* _broadcast_sync(task_id, data): the message goes to the global connections
\* and to the task's own; nothing is sent when there are none
Targets(task_id) == _global_connections \cup _ws_connections[task_id]

_broadcast_sync(task_id, data) ==
    IF Targets(task_id) = {}
    THEN UNCHANGED last_broadcast
    ELSE last_broadcast' = [task_id |-> task_id, data |-> data, targets |-> Targets(task_id)]
Message(type, progress) == [type |-> type, progress |-> progress]
\* Requests that will still create a task
Submitting == {h \in RequestThreads : request_pc[h] \in {"renoise", "submit"}}
RoomForTask == Len(_tasks) + Cardinality(Submitting) < MaxTasks

\* POST /generate: a resume request with t_start < 1 re-noises the stored
\* latent in the handler before the task is submitted
start_generation(h) ==
    /\ request_pc[h] = "idle"
    /\ RoomForTask
    /\ \E resume \in BOOLEAN : Goto(h, IF resume THEN "renoise" ELSE "submit")
    /\ UNCHANGED <<_tasks, _executor, request_task, wsVars, coreVars, sVars, latVars, plVars>>

\* dit.model.renoise(...) returns to start_generation
RenoiseReturns(h) ==
    /\ request_pc[h] = "renoise"
    /\ Goto(h, "submit")
    /\ UNCHANGED <<_tasks, _executor, request_task, wsVars, coreVars, sVars, latVars, plVars>>

\* POST /pipeline: validation only, then the task is submitted
start_pipeline(h) ==
    /\ request_pc[h] = "idle"
    /\ RoomForTask
    /\ Goto(h, "submit")
    /\ UNCHANGED <<_tasks, _executor, request_task, wsVars, coreVars, sVars, latVars, plVars>>

\* task_manager.submit(_run), first half: the pending task is stored.  Task
\* ids are modelled by the position in _tasks.
submit(h) ==
    /\ request_pc[h] = "submit"
    /\ _tasks' = Append(_tasks, NewTask)
    /\ request_task' = [request_task EXCEPT ![h] = Len(_tasks) + 1]
    /\ Goto(h, "executor_submit")
    /\ UNCHANGED <<_executor, wsVars, coreVars, sVars, latVars, plVars>>

\* second half: self._executor.submit(_run) puts _run on the work queue.
\* The queue keeps the items already taken; taken counts them.
ExecutorSubmit(h) ==
    /\ request_pc[h] = "executor_submit"
    /\ _executor' = [_executor EXCEPT !.queue = Append(@, request_task[h])]
    /\ request_task' = [request_task EXCEPT ![h] = 0]
    /\ Goto(h, "idle")
    /\ UNCHANGED <<_tasks, wsVars, coreVars, sVars, latVars, plVars>>

\* Mutant: a second worker thread.
WorkerFree_two(running) == Cardinality(running) < 2

\* ThreadPoolExecutor(max_workers=1): the worker is free when nothing runs
WorkerFree(running) == running = {}

\* a free worker takes the oldest queued _run
WorkerTakes ==
    /\ WorkerFree(_executor.running)
    /\ _executor.taken < Len(_executor.queue)
    /\ LET id == _executor.queue[_executor.taken + 1]
       IN  /\ _executor' = [_executor EXCEPT !.taken = @ + 1, !.running = @ \cup {id}]
           /\ _tasks' = SetStatus(_tasks, id, "running")
           /\ _broadcast_sync(id, Message("status", _tasks[id].progress))
    /\ UNCHANGED <<request_pc, request_task, ws_pc, _global_connections, _ws_connections,
                   coreVars, sVars, latVars, plVars>>

\* task_manager.update_progress(task_id, progress, message), called by the
\* running task function; the reported values increase
update_progress ==
    /\ \E id \in _executor.running, p \in ProgressChoices :
         /\ RLt(_tasks[id].progress, p)
         /\ _tasks' = [_tasks EXCEPT ![id].progress = p]
         /\ _broadcast_sync(id, Message("progress", p))
    /\ UNCHANGED <<_executor, request_pc, request_task, ws_pc, _global_connections,
                   _ws_connections, coreVars, sVars, latVars, plVars>>

\* fn(task_id, ...) returns or raises an Exception
WorkerReturns ==
    /\ \E id \in _executor.running :
         /\ \/ /\ _tasks' = [_tasks EXCEPT ![id] = Completed(@)]
               /\ _broadcast_sync(id, Message("completed", _tasks[id].progress))
            \/ /\ _tasks' = [_tasks EXCEPT ![id] = Failed(@, "str(e)")]
               /\ _broadcast_sync(id, Message("error", _tasks[id].progress))
         /\ _executor' = [_executor EXCEPT !.running = @ \ {id}]
    /\ UNCHANGED <<request_pc, request_task, ws_pc, _global_connections, _ws_connections,
                   coreVars, sVars, latVars, plVars>>

\* POST /latent/{id}/decode: the VAE decode runs in the handler
decode_latent(h) ==
    /\ request_pc[h] = "idle"
    /\ Goto(h, "decode")
    /\ UNCHANGED <<_tasks, _executor, request_task, wsVars, coreVars, sVars, latVars, plVars>>

\* POST /score: needs a task that kept its outputs; scoring runs in the handler
calculate_score(h) ==
    /\ request_pc[h] = "idle"
    /\ \E id \in 1..Len(_tasks) : _tasks[id].status = "completed"
    /\ Goto(h, "score")
    /\ UNCHANGED <<_tasks, _executor, request_task, wsVars, coreVars, sVars, latVars, plVars>>

\* the decode or scoring call returns and the response is sent
HandlerReturns(h) ==
    /\ request_pc[h] \in {"decode", "score"}
    /\ Goto(h, "idle")
    /\ UNCHANGED <<_tasks, _executor, request_task, wsVars, coreVars, sVars, latVars, plVars>>

\* register_ws(ws, task_id=None)
NoTaskId == 0
register_ws(ws, task_id) ==
    IF task_id # NoTaskId
    THEN /\ _ws_connections' = [_ws_connections EXCEPT ![task_id] = @ \cup {ws}]
         /\ UNCHANGED _global_connections
    ELSE /\ _global_connections' = _global_connections \cup {ws}
         /\ UNCHANGED _ws_connections

\* unregister_ws(ws, task_id=None): the task's list is touched only when a
\* task_id is given; the global list always
unregister_ws(ws, task_id) ==
    /\ _ws_connections' = IF task_id # NoTaskId
                           THEN [_ws_connections EXCEPT ![task_id] = @ \ {ws}]
                           ELSE _ws_connections
    /\ _global_connections' = _global_connections \ {ws}

\* websocket_endpoint: the connection is accepted and registered globally
Accept(ws) ==
    /\ ws_pc[ws] = "closed"
    /\ register_ws(ws, NoTaskId)
    /\ ws_pc' = [ws_pc EXCEPT ![ws] = "open"]
    /\ UNCHANGED <<_tasks, _executor, request_pc, request_task, last_broadcast,
                   coreVars, sVars, latVars, plVars>>

\* websocket_endpoint: a subscribe message for a task; the task's current
\* status is sent back to this websocket
Subscribe(ws) ==
    /\ ws_pc[ws] = "open"
    /\ \E tid \in 1..Len(_tasks) :
         /\ ws \notin _ws_connections[tid]
         /\ register_ws(ws, tid)
    /\ UNCHANGED <<_tasks, _executor, request_pc, request_task, ws_pc, last_broadcast,
                   coreVars, sVars, latVars, plVars>>

\* websocket_endpoint: WebSocketDisconnect, task_manager.unregister_ws(ws)
Disconnect(ws) ==
    /\ ws_pc[ws] = "open"
    /\ unregister_ws(ws, NoTaskId)
    /\ ws_pc' = [ws_pc EXCEPT ![ws] = "unregistered"]
    /\ UNCHANGED <<_tasks, _executor, request_pc, request_task, last_broadcast,
                   coreVars, sVars, latVars, plVars>>

\* The operations that are inside a call into the shared model
InModel ==
    {h \in RequestThreads : request_pc[h] \in {"renoise", "decode", "score"}}
        \cup {<<"worker", id>> : id \in _executor.running}

ServiceInit ==
    /\ _guidance_module = FALSE
    /\ registry = MODEL_VARIANT_CONFIGS
    /\ Blank
    /\ SchedOff
    /\ ServiceIdle
    /\ StoreEmpty
    /\ NoPipeline

ServiceNext ==
    \/ \E h \in RequestThreads : start_generation(h)
    \/ \E h \in RequestThreads : RenoiseReturns(h)
    \/ \E h \in RequestThreads : start_pipeline(h)
    \/ \E h \in RequestThreads : submit(h)
    \/ \E h \in RequestThreads : ExecutorSubmit(h)
    \/ WorkerTakes
    \/ update_progress
    \/ WorkerReturns
    \/ \E h \in RequestThreads : decode_latent(h)
    \/ \E h \in RequestThreads : calculate_score(h)
    \/ \E h \in RequestThreads : HandlerReturns(h)

ServiceSpec == ServiceInit /\ [][ServiceNext]_vars

\* The service with websocket clients
WsNext ==
    \/ \E h \in RequestThreads : start_pipeline(h)
    \/ \E h \in RequestThreads : submit(h)
    \/ \E h \in RequestThreads : ExecutorSubmit(h)
    \/ WorkerTakes
    \/ update_progress
    \/ WorkerReturns
    \/ \E ws \in WebSockets : Accept(ws)
    \/ \E ws \in WebSockets : Subscribe(ws)
    \/ \E ws \in WebSockets : Disconnect(ws)

WsSpec == ServiceInit /\ [][WsNext]_vars

\* The worker thread keeps running: it takes queued work, and the task
\* function it runs returns or raises.
ServiceFairSpec == ServiceSpec /\ WF_vars(WorkerTakes) /\ WF_vars(WorkerReturns)

(* ------------------------------------------------------------------ *)
(* Properties                                                          *)
(* ------------------------------------------------------------------ *)
Blending == RLt(req.audio_cover_strength, One)
InRun == pc # "idle"
Finished == pc \in {"output", "done"}
\* floor of a non-negative rational
RFloor(a) == CHOOSE k \in 0..(a[1] + 1) : k * a[2] <= a[1] /\ a[1] < (k + 1) * a[2]

\* C1: in a run over a schedule of N+1 entries the decoder is invoked N times,
\* the i-th invocation happens at step i and receives schedule[i] for every
\* batch item; a completed run has made exactly N invocations, so the terminal
\* entry schedule[N] is never passed.
C1_DecoderTimesteps ==
    /\ calls.decoder > 0 =>
         /\ decoder_call.step = calls.decoder - 1
         /\ calls.decoder <= Len(schedule) - 1
         /\ decoder_call.timestep.val = schedule[calls.decoder]
         /\ decoder_call.timestep.batch = decoder_call.hidden_states.batch
    /\ pc = "done" => calls.decoder = Len(schedule) - 1

C1_Witness ==
    /\ pc = "done"
    /\ Len(schedule) = 9
    /\ calls.decoder = 8
    /\ decoder_call.timestep.val = schedule[8]
    /\ schedule[8] # schedule[9]

\* C2: compute with a registered variant's default_steps and default_shift,
\* no user timesteps and scheduler_explicit = false returns default_steps + 1
\* entries, the last of which is 0.
DefaultInputs ==
    /\ s_in.scheduler_override = NoneStr
    /\ s_in.num_steps = MODEL_VARIANT_CONFIGS[s_in.variant].default_steps
    /\ s_in.shift = MODEL_VARIANT_CONFIGS[s_in.variant].default_shift
    /\ s_in.timesteps = NoneSeq
    /\ s_in.scheduler_explicit = FALSE

C2_DefaultSchedule ==
    (s_pc = "computed" /\ DefaultInputs) =>
        /\ s_out.ok
        /\ Len(s_out.sched) = MODEL_VARIANT_CONFIGS[s_in.variant].default_steps + 1
        /\ s_out.sched[Len(s_out.sched)] = Zero

C2_Witness ==
    /\ s_pc = "computed"
    /\ DefaultInputs
    /\ s_in.variant = "acestep-v15-turbo-continuous"
    /\ Len(s_out.sched) = 9
    /\ s_out.sched[1] = One

\* C3: under ODE stepping every non-final step i replaces the latent by
\* latent_i - p_i * (s[i] - s[i+1]); the final step replaces it by
\* get_x0_from_noise(latent_{N-1}, p_{N-1}, s[N-1]), which is what a run of
\* at least one step returns.  (A step in which a collaborator raises updates
\* nothing: see C26.)
C3_OdeUpdate ==
    /\ [][(pc = "loop" /\ pc' # "failed" /\ req.infer_method = "ode") =>
            IF step_idx < Len(schedule) - 2
            THEN xt' = OdeStep(xt, vt', RSub(schedule[step_idx + 1], schedule[step_idx + 2]))
            ELSE xt' = GetX0(xt, vt', schedule[Len(schedule) - 1])]_vars
    /\ []((pc = "done" /\ req.infer_method = "ode" /\ Len(schedule) >= 2) =>
            result = GetX0(decoder_call.hidden_states.x, vt, schedule[Len(schedule) - 1]))

C3_Witness ==
    /\ pc = "done"
    /\ req.infer_method = "ode"
    /\ Len(schedule) = 3
    /\ schedule[1] # schedule[2]
    /\ result = GetX0(OdeStep(PrepareNoise("seed"), Pred(1),
                              RSub(schedule[1], schedule[2])),
                      Pred(2), schedule[2])

\* C4: the final step of a run produces the latent by get_x0_from_noise alone
\* and ends the loop: an N-step ODE run (N >= 1) has called get_x0_from_noise
\* once and renoise never, an N-step SDE run has called renoise N-1 times and
\* get_x0_from_noise N times.
C4_FinalStep ==
    (Finished /\ num_steps >= 1) =>
        /\ xt = GetX0(decoder_call.hidden_states.x, vt, schedule[num_steps])
        /\ decoder_call.step = num_steps - 1
        /\ req.infer_method = "ode" =>
             calls.get_x0_from_noise = 1 /\ calls.renoise = 0
        /\ req.infer_method = "sde" =>
             calls.get_x0_from_noise = num_steps /\ calls.renoise = num_steps - 1

C4_Witness ==
    /\ pc = "done"
    /\ req.infer_method = "sde"
    /\ num_steps = 8
    /\ calls.renoise = 7
    /\ calls.get_x0_from_noise = 8
    /\ result.op = "get_x0_from_noise"

\* C5: under SDE stepping the target of renoise at non-final step i is
\* 1 - (i+1)/N for sde_renoise_linear variants, N = len(schedule) - 1 of the
\* schedule run (after truncation), and schedule[i+1] for the others; renoise
\* is called at every non-final step.
C5_RenoiseTarget ==
    (InRun /\ req.infer_method = "sde") =>
        /\ calls.renoise > 0 =>
             /\ renoise_call.step = calls.renoise - 1
             /\ renoise_call.step < Len(schedule) - 2
             /\ renoise_call.t =
                  IF MODEL_VARIANT_CONFIGS[req.variant].sde_renoise_linear
                  THEN RSub(One, Rat(renoise_call.step + 1, Len(schedule) - 1))
                  ELSE schedule[renoise_call.step + 2]
        /\ pc = "loop" => calls.renoise = step_idx

C5_Witness ==
    /\ pc = "loop"
    /\ req.infer_method = "sde"
    /\ req.variant = "acestep-v15-base"
    /\ req.init_latents /\ req.t_start = Rat(1, 2)
    /\ Len(schedule) - 1 < infer_steps
    /\ calls.renoise = 2
    /\ renoise_call.t = RSub(One, Rat(2, num_steps))
    /\ renoise_call.t # schedule[3]

\* C6: with CFG and cover blending active, a run whose loop executes doubles
\* the non-cover conditioning exactly once: never more than once at any point
\* of the loop, and once when the loop has ended.
C6_NonCoverDoubledOnce ==
    /\ calls.non_cover_doubling <= 1
    /\ InRun => /\ encoder_hidden_states_non_cover.batch <= 2 * req.bsz
                /\ encoder_attention_mask_non_cover.batch <= 2 * req.bsz
                /\ context_latents_non_cover.batch <= 2 * req.bsz
    /\ (Finished /\ do_cfg_guidance /\ Blending /\ num_steps >= 1) =>
         /\ calls.non_cover_doubling = 1
         /\ calls.null_expand = 2
         /\ encoder_hidden_states_non_cover = Cat(Tensor("non_cover", req.bsz), "null_emb")
         /\ encoder_attention_mask_non_cover = Cat(Tensor("non_cover", req.bsz), "copy")
         /\ context_latents_non_cover = Cat(Tensor("non_cover", req.bsz), "copy")

C6_Witness ==
    /\ pc = "done"
    /\ do_cfg_guidance
    /\ num_steps = 8
    /\ cover_steps = 4
    /\ calls.decoder = 8
    /\ calls.non_cover_doubling = 1
    /\ calls.null_expand = 2

\* C7: with blending active and k = floor(num_steps * cover_strength), the
\* decoder invocation of step i receives the primary triple when i < k and the
\* non-cover triple when i >= k; without blending it always receives the
\* primary triple.
C7_CoverSwitchIndex ==
    calls.decoder > 0 =>
        LET k == RFloor(RMul(RInt(Len(schedule) - 1), req.audio_cover_strength))
            expected == IF Blending /\ decoder_call.step >= k
                        THEN "non_cover" ELSE "cover"
        IN  /\ decoder_call.encoder_hidden_states.src = expected
            /\ decoder_call.encoder_attention_mask.src = expected
            /\ decoder_call.context_latents.src = expected
            /\ encoder_hidden_states.src = expected
            /\ encoder_attention_mask.src = expected
            /\ context_latents.src = expected

C7_Witness ==
    /\ calls.decoder = 2
    /\ req.init_latents /\ req.t_start = Rat(1, 2)
    /\ Len(schedule) = 5
    /\ infer_steps = 8
    /\ cover_steps = 2
    /\ decoder_call.step = 1
    /\ decoder_call.encoder_hidden_states.src = "cover"

\* C8 (as stated): the cache is reset only at step 0 and at the single step
\* where the switch occurs; any other step receives the cache returned by the
\* previous step's decoder invocation.
C8_ResetOnlyAtSwitch ==
    [][(pc = "loop" /\ Blending) =>
         IF step_idx = 0 \/ step_idx = cover_steps
         THEN decoder_call'.past_key_values = 0
         ELSE decoder_call'.past_key_values = past_key_values /\ past_key_values > 0]_vars

\* C8 (amended): the decoder receives a fresh empty cache at step 0 and, when
\* blending is active, at every step at or after the switch index; at every
\* other step i > 0 it receives the cache returned by step i-1.
C8_ResetFromSwitchOn ==
    [][pc = "loop" =>
         IF step_idx = 0 \/ (Blending /\ step_idx >= cover_steps)
         THEN decoder_call'.past_key_values = 0
         ELSE /\ decoder_call'.past_key_values = past_key_values
              /\ past_key_values = step_idx]_vars

C8_Witness ==
    /\ InRun
    /\ Blending
    /\ cover_steps = 4
    /\ decoder_call.step = 6
    /\ decoder_call.past_key_values = 0
    /\ past_key_values = 1

\* C9: CFG is active exactly when the variant's use_cfg holds and the guidance
\* scale exceeds 1.0; a run without CFG never calls the plugin loader, never
\* fails on a missing plugin and doubles no batch.
CfgRequested ==
    MODEL_VARIANT_CONFIGS[req.variant].use_cfg /\ RLt(One, req.diffusion_guidance_sale)

C9_CfgOnlyWhenRequested ==
    (InRun /\ req.variant \in VariantNames) =>
        /\ pc \in {"loop", "output", "done"} =>
             /\ do_cfg_guidance = CfgRequested
             /\ calls.load_guidance = IF CfgRequested THEN 1 ELSE 0
             /\ attention_mask.batch = IF CfgRequested THEN 2 * req.bsz ELSE req.bsz
             /\ encoder_hidden_states.batch = attention_mask.batch
        /\ ~CfgRequested =>
             /\ calls.load_guidance = 0 /\ calls.exec_module = 0
             /\ calls.null_expand = 0 /\ calls.guidance = 0
             /\ error # "ImportError: cannot find apg_guidance.py"
             /\ attention_mask.batch = req.bsz
             /\ encoder_hidden_states.batch <= req.bsz
             /\ encoder_hidden_states_non_cover.batch <= req.bsz
             /\ calls.decoder > 0 => decoder_call.hidden_states.batch = req.bsz

C9_Witness ==
    /\ pc = "done"
    /\ req.variant = "acestep-v15-turbo"
    /\ RLt(One, req.diffusion_guidance_sale)
    /\ ~_guidance_module
    /\ calls.decoder = 8
    /\ calls.load_guidance = 0
    /\ decoder_call.hidden_states.batch = req.bsz

\* C10: a call with an unregistered variant name fails at the lookup, with no
\* collaborator invoked and no latent returned.
C10_UnknownVariantFails ==
    (InRun /\ req.variant \notin VariantNames) =>
        /\ pc = "failed"
        /\ error = "ValueError: unknown variant"
        /\ calls = NoCalls
        /\ result = NoLatent

C10_Witness ==
    /\ pc = "failed"
    /\ req.variant = UnknownVariant
    /\ error = "ValueError: unknown variant"
    /\ calls.prepare_condition = 0

(* ------------------------------------------------------------------ *)
(* LatentStore: pin, unpin, delete and the TTL cleanup pass            *)
(* ------------------------------------------------------------------ *)
\* config.LATENT_TTL_HOURS * 3600, in ticks
LatentTtl == 2
Unused == {id \in LatentIds : ~_env[id].present /\ id \notin files /\ id \notin expired_paths
                                /\ \A j \in LatentIds : j >= id => ~_env[j].present}

\* store(tensor, metadata): the tensor file is written, then the record is put
\* in one write transaction; the id is fresh
store ==
    /\ \E id \in Unused :
         /\ \A j \in Unused : id <= j
         /\ files' = files \cup {id}
         /\ _env' = [_env EXCEPT ![id] = [present |-> TRUE, pinned |-> FALSE,
                                          created_at |-> clock]]
    /\ UNCHANGED <<clock, cleanup_pc, now, expired_paths, coreVars, sVars, svcVars, plVars>>

\* pin(latent_id) / unpin(latent_id): one write transaction; False for an
\* unknown id
SetPinned(env, id, pinned) == IF env[id].present THEN [env EXCEPT ![id].pinned = pinned] ELSE env

pin(id) ==
    /\ _env' = SetPinned(_env, id, TRUE)
    /\ _env' # _env
    /\ UNCHANGED <<files, clock, cleanup_pc, now, expired_paths, coreVars, sVars, svcVars, plVars>>

unpin(id) ==
    /\ _env' = SetPinned(_env, id, FALSE)
    /\ _env' # _env
    /\ UNCHANGED <<files, clock, cleanup_pc, now, expired_paths, coreVars, sVars, svcVars, plVars>>

\* delete(latent_id): record and tensor file are removed inside one write
\* transaction
delete(id) ==
    /\ _env[id].present
    /\ _env' = [_env EXCEPT ![id] = NoRecord]
    /\ files' = files \ {id}
    /\ UNCHANGED <<clock, cleanup_pc, now, expired_paths, coreVars, sVars, svcVars, plVars>>

\* Mutant: the pin is not looked at.
Removable_by_age(record, t, ttl) == t - record.created_at > ttl

\* not record.pinned and now - record.created_at > ttl
Removable(record, t, ttl) == ~record.pinned /\ t - record.created_at > ttl

\* _do_cleanup, before the transaction: the clock is read
CleanupStart ==
    /\ cleanup_pc = "sleep"
    /\ now' = clock
    /\ cleanup_pc' = "txn"
    /\ UNCHANGED <<_env, files, clock, expired_paths, coreVars, sVars, svcVars, plVars>>

\* _do_cleanup, the write transaction: every record that is unpinned and
\* older than the TTL is deleted and its path noted
CleanupTxn ==
    /\ cleanup_pc = "txn"
    /\ LET expired == {id \in LatentIds : _env[id].present /\ Removable(_env[id], now, LatentTtl)}
       IN  /\ _env' = [id \in LatentIds |-> IF id \in expired THEN NoRecord ELSE _env[id]]
           /\ expired_paths' = expired
    /\ cleanup_pc' = "remove_files"
    /\ UNCHANGED <<files, clock, now, coreVars, sVars, svcVars, plVars>>

\* _do_cleanup, after the transaction: the noted tensor files are removed;
\* the thread then sleeps until the next pass
CleanupRemoveFiles ==
    /\ cleanup_pc = "remove_files"
    /\ files' = files \ expired_paths
    /\ expired_paths' = {}
    /\ cleanup_pc' = "sleep"
    /\ UNCHANGED <<_env, clock, now, coreVars, sVars, svcVars, plVars>>

\* time passes
Tick ==
    /\ clock < MaxClock
    /\ clock' = clock + 1
    /\ UNCHANGED <<_env, files, cleanup_pc, now, expired_paths, coreVars, sVars, svcVars, plVars>>

LatentInit ==
    /\ _guidance_module = FALSE
    /\ registry = MODEL_VARIANT_CONFIGS
    /\ Blank
    /\ SchedOff
    /\ ServiceIdle
    /\ StoreEmpty
    /\ NoPipeline

LatentNext ==
    \/ store
    \/ \E id \in LatentIds : pin(id)
    \/ \E id \in LatentIds : unpin(id)
    \/ \E id \in LatentIds : delete(id)
    \/ CleanupStart
    \/ CleanupTxn
    \/ CleanupRemoveFiles
    \/ Tick

LatentSpec == LatentInit /\ [][LatentNext]_vars

(* ------------------------------------------------------------------ *)
(* POST /pipeline: start_pipeline's stage-graph validation and         *)
(* run_pipeline                                                        *)
(* ------------------------------------------------------------------ *)
VALID_TYPES == {"generate", "refine", "cover", "repaint", "extract", "lego", "complete"}
AUDIO_TYPES == {"cover", "repaint", "extract", "lego", "complete"}
BASE_ONLY == {"extract", "lego", "complete"}

\* Stage indices a request names, valid or not
StageRefs == {NoneInt} \cup {Some(i) : i \in -1..(MaxStages - 1)}

\* The fields of PipelineStageConfig that the validation and the stage setup
\* read
SchemaFields == {"type", "input_stage", "src_audio_id", "src_stage", "track_name", "model"}
Field(type, input_stage, src_audio_id, src_stage, track_name, model, src_latent_id) == [type |-> type, input_stage |-> input_stage, src_audio_id |-> src_audio_id, src_stage |-> src_stage, track_name |-> track_name, model |-> model, src_latent_id |-> src_latent_id]

\* Stage objects of a request body; src_audio_id, track_name and
\* src_latent_id by whether a non-empty string is supplied
StageBodies ==
    {Field("generate", NoneInt, FALSE, NoneInt, FALSE, "", FALSE), Field("bogus", NoneInt, FALSE, NoneInt, FALSE, "", FALSE)}
  \cup {Field("refine", r, FALSE, NoneInt, FALSE, "", l) : r \in StageRefs, l \in BOOLEAN}
  \cup {Field("cover", NoneInt, a, r, FALSE, "", l) : a \in BOOLEAN, r \in StageRefs, l \in BOOLEAN}
  \cup {Field("lego", NoneInt, TRUE, NoneInt, t, m, FALSE) : t \in BOOLEAN, m \in {"", "acestep-v15-turbo"}}
Bodies == UNION {[1..n -> StageBodies] : n \in 1..MaxStages}

\* PipelineStageConfig(**stage): the declared fields are kept, any other key
\* of the body is ignored
PipelineStageConfig(b) == [f \in SchemaFields |-> b[f]]
HasAttr(stage, name) == name \in DOMAIN stage
BadRef(ref, idx) == ref < 0 \/ ref >= idx

\* refine: stage.src_latent_id is read first; without it the stage must name
\* an earlier stage (the previous one by default)
RefineCheck(stage, idx) ==
    IF ~HasAttr(stage, "src_latent_id") THEN "AttributeError"
    ELSE IF stage.src_latent_id THEN "ok"
    ELSE IF BadRef(IF stage.input_stage.some THEN stage.input_stage.v ELSE idx - 1, idx) THEN "422"
    ELSE "ok"

\* audio stages: a source is needed (src_latent_id is read only when the two
\* others are missing), and a src_stage must name an earlier stage
AudioCheck(stage, idx) ==
    IF ~stage.src_audio_id /\ ~stage.src_stage.some
    THEN IF ~HasAttr(stage, "src_latent_id") THEN "AttributeError"
         ELSE IF stage.src_latent_id THEN "ok" ELSE "422"
    ELSE IF stage.src_stage.some /\ BadRef(stage.src_stage.v, idx) THEN "422"
    ELSE "ok"

\* The body of start_pipeline's loop for one stage, in the order of the code
StageCheck(stage, idx) ==
    IF stage.type \notin VALID_TYPES THEN "422"
    ELSE IF stage.type = "refine" THEN RefineCheck(stage, idx)
    ELSE IF stage.type \in AUDIO_TYPES /\ AudioCheck(stage, idx) # "ok" THEN AudioCheck(stage, idx)
    ELSE IF stage.type \in BASE_ONLY /\ stage.model = "acestep-v15-turbo" THEN "422"
    ELSE IF stage.type \in {"extract", "lego"} /\ ~stage.track_name THEN "422"
    ELSE "ok"

\* The loop: the first stage that fails decides
FailingStages(stages) == {i \in 1..Len(stages) : StageCheck(stages[i], i - 1) # "ok"}
StageGraph(stages) ==
    IF FailingStages(stages) = {} THEN "ok"
    ELSE StageCheck(stages[CHOOSE i \in FailingStages(stages) : \A j \in FailingStages(stages) : i <= j],
                    (CHOOSE i \in FailingStages(stages) : \A j \in FailingStages(stages) : i <= j) - 1)

\* POST /pipeline: the body is parsed and validated; an accepted request is
\* submitted as a task, any other is answered with the error
PostPipeline ==
    /\ pl_pc = "idle"
    /\ \E b \in Bodies :
         /\ pl_body' = b
         /\ pl_stages' = [i \in 1..Len(b) |-> PipelineStageConfig(b[i])]
         /\ \A outcome \in {StageGraph([i \in 1..Len(b) |-> PipelineStageConfig(b[i])])} :
              /\ pl_pc' = IF outcome = "ok" THEN "submitted" ELSE "responded"
              /\ pl_error' = IF outcome = "ok" THEN "" ELSE outcome
    /\ UNCHANGED <<pl_idx, stage_latents, pl_read, coreVars, sVars, svcVars, latVars>>

\* run_pipeline, validate stages: a refine stage without input_stage gets the
\* previous stage; an input_stage that is not an earlier stage is a ValueError
WithDefault(stage, idx) ==
    IF stage.type = "refine" /\ ~stage.input_stage.some
    THEN [stage EXCEPT !.input_stage = Some(idx - 1)]
    ELSE stage
InvalidInput(stage, idx) == stage.type = "refine" /\ BadRef(stage.input_stage.v, idx)

RunValidate ==
    /\ pl_pc = "submitted"
    /\ pl_stages' = [i \in 1..Len(pl_stages) |-> WithDefault(pl_stages[i], i - 1)]
    /\ IF \E i \in 1..Len(pl_stages) : InvalidInput(WithDefault(pl_stages[i], i - 1), i - 1)
       THEN pl_pc' = "failed" /\ pl_error' = "invalid input_stage"
       ELSE pl_pc' = "run" /\ pl_error' = ""
    /\ UNCHANGED <<pl_body, pl_idx, stage_latents, pl_read, coreVars, sVars, svcVars, latVars>>

\* The stage latent a stage reads: a refine stage its input_stage, an audio
\* stage without uploaded audio its src_stage
Reads(stage) ==
    IF stage.type = "refine" /\ stage.input_stage.some THEN stage.input_stage
    ELSE IF stage.type \in AUDIO_TYPES /\ ~stage.src_audio_id THEN stage.src_stage
    ELSE NoneInt

\* run_pipeline, one stage: the source latent is read, the diffusion pass
\* runs and the stage's clean latent is stored
RunStage ==
    /\ pl_pc = "run"
    /\ pl_idx < Len(pl_stages)
    /\ \A r \in {Reads(pl_stages[pl_idx + 1])} :
         /\ pl_read' = r
         /\ IF r.some /\ r.v \notin stage_latents
            THEN /\ pl_pc' = "failed"
                 /\ pl_error' = "no latents"
                 /\ UNCHANGED <<pl_idx, stage_latents>>
            ELSE /\ stage_latents' = stage_latents \cup {pl_idx}
                 /\ pl_idx' = pl_idx + 1
                 /\ pl_pc' = IF pl_idx + 1 = Len(pl_stages) THEN "done" ELSE "run"
                 /\ UNCHANGED pl_error
    /\ UNCHANGED <<pl_body, pl_stages, coreVars, sVars, svcVars, latVars>>

\* swap_dit_model fails or service_generate raises: the run ends
StageRaises ==
    /\ pl_pc = "run"
    /\ pl_idx < Len(pl_stages)
    /\ pl_pc' = "failed"
    /\ pl_error' = "stage failed"
    /\ UNCHANGED <<pl_body, pl_stages, pl_idx, stage_latents, pl_read, coreVars, sVars, svcVars, latVars>>

PipelineInit ==
    /\ _guidance_module = FALSE
    /\ registry = MODEL_VARIANT_CONFIGS
    /\ Blank
    /\ SchedOff
    /\ ServiceIdle
    /\ StoreEmpty
    /\ NoPipeline

PipelineNext ==
    \/ PostPipeline
    \/ RunValidate
    \/ RunStage
    \/ StageRaises

PipelineSpec == PipelineInit /\ [][PipelineNext]_vars

(* ------------------------------------------------------------------ *)
(* Scheduler claims                                                    *)
(* ------------------------------------------------------------------ *)
\* compute has just returned or raised
Computed == s_pc = "computed"

\* The user timesteps cannot be used: absent, ignored by the variant, fewer
\* than two entries where the terminal is included, or nothing but zeros.
NoUsableTimesteps(cfg, ts) ==
    \/ ~ts.some
    \/ cfg.custom_timesteps = "none"
    \/ cfg.custom_timesteps = "with_terminal" /\ Len(ts.v) < 2
    \/ cfg.custom_timesteps \in {"strip_zeros", "map_nearest"}
       /\ \A i \in 1..Len(ts.v) : ts.v[i] = Zero

\* The shift the schedule is computed with.
UsedShift(in) ==
    IF MODEL_VARIANT_CONFIGS[in.variant].forced_shift.some
    THEN MODEL_VARIANT_CONFIGS[in.variant].forced_shift.v
    ELSE in.shift

\* n+1 evenly spaced points from 1 to 0, remapped by s*t/(1+(s-1)*t)
LinearRef(n, s) ==
    [i \in 1..(n + 1) |->
        LET t == IF n = 0 THEN One ELSE Rat(n + 1 - i, n)
        IN  IF s = One THEN t
            ELSE RDiv(RMul(s, t), RAdd(One, RMul(RSub(s, One), t)))]

\* C11: compute in discrete mode with a step count other than 8 and no usable
\* user timesteps raises when the scheduler was chosen explicitly, and otherwise
\* returns the linear schedule for the same step count and the same (forced or
\* given) shift, num_steps + 1 entries long.
C11_DiscreteStepCount ==
    (/\ Computed
     /\ SchedConfig(s_in).timestep_mode = "discrete"
     /\ s_in.num_steps # 8
     /\ NoUsableTimesteps(SchedConfig(s_in), s_in.timesteps)) =>
        IF s_in.scheduler_explicit
        THEN ~s_out.ok /\ s_out.err = "ValueError: discrete scheduler only supports 8 steps"
        ELSE /\ s_out.ok
             /\ s_out.sched = LinearRef(s_in.num_steps, UsedShift(s_in))
             /\ Len(s_out.sched) = s_in.num_steps + 1
             /\ s_out = compute(ApplyOverride(SchedConfig(s_in), Some("linear")),
                                s_in.num_steps, s_in.shift, NoneSeq, FALSE)

C11_Witness ==
    /\ s_pc = "computed"
    /\ s_in.variant = "acestep-v15-turbo"
    /\ s_in.scheduler_override = NoneStr
    /\ s_in.num_steps = 5
    /\ s_in.shift = RInt(3)
    /\ s_in.timesteps = Some(<<Zero>>)
    /\ ~s_in.scheduler_explicit
    /\ s_out.ok
    /\ Len(s_out.sched) = 6
    /\ s_out.sched[2] = Rat(12, 13)

\* Normalization rejects the user timesteps.
Rejected(cfg, ts_list) ==
    IF cfg.custom_timesteps = "with_terminal"
    THEN Len(ts_list) < 2
    ELSE \A i \in 1..Len(ts_list) : ts_list[i] = Zero

\* C13: when user timesteps are supplied for a variant whose custom_timesteps
\* mode is not "none" and normalization rejects them, compute does not raise on
\* their account: its outcome is the outcome of the same call without user
\* timesteps.
C13_RejectedTimestepsFallBack ==
    (/\ Computed
     /\ s_in.timesteps.some
     /\ SchedConfig(s_in).custom_timesteps # "none"
     /\ Rejected(SchedConfig(s_in), s_in.timesteps.v)) =>
        s_out = compute(SchedConfig(s_in), s_in.num_steps, s_in.shift, NoneSeq,
                        s_in.scheduler_explicit)

C13_Witness ==
    /\ s_pc = "computed"
    /\ s_in.variant = "acestep-v15-sft"
    /\ s_in.scheduler_override = NoneStr
    /\ s_in.timesteps = Some(<<Rat(1, 2)>>)
    /\ s_in.num_steps = 2
    /\ s_in.shift = One
    /\ s_out = Ok(<<One, Rat(1, 2), Zero>>)

\* C14: for a schedule of at least two entries truncate returns the schedule
\* unchanged when t_start >= 1 - 1e-6; otherwise the suffix that starts at the
\* first evaluation entry (all but the last) that is <= t_start + 1e-6, the
\* terminal included; and the schedule unchanged when there is no such entry.
\* truncate([1.0, 0.75, 0.5, 0.25, 0.0], 0.6) = [0.5, 0.25, 0.0].
C14_TruncateReference ==
    (s_pc = "truncated" /\ Len(s_out.sched) >= 2) =>
        LET in == s_out.sched
            n == Len(in)
            t == s_trunc.t_start
            out == s_trunc.sched
            above(i) == RLt(RAdd(t, Rat(1, 1000000)), in[i])
        IN  /\ IF RLe(Rat(999999, 1000000), t) THEN out = in
               ELSE IF \A i \in 1..(n - 1) : above(i) THEN out = in
               ELSE \E j \in 1..(n - 1) :
                      /\ ~above(j)
                      /\ \A i \in 1..(j - 1) : above(i)
                      /\ out = [k \in 1..(n - j + 1) |-> in[j + k - 1]]
            /\ (in = <<One, Rat(3, 4), Rat(1, 2), Rat(1, 4), Zero>> /\ t = Rat(3, 5))
                 => out = <<Rat(1, 2), Rat(1, 4), Zero>>

C14_Witness ==
    /\ s_pc = "truncated"
    /\ s_out.sched = <<One, Rat(3, 4), Rat(1, 2), Rat(1, 4), Zero>>
    /\ s_trunc.t_start = Rat(3, 5)
    /\ s_trunc.sched = <<Rat(1, 2), Rat(1, 4), Zero>>

\* C15: when the variant's forced_shift is set, the schedule compute returns
\* does not depend on the caller's shift: two calls that differ only in shift
\* return the same schedule, the one computed with shift = forced_shift
\* (acestep-v15-turbo-shift3 always uses 3.0).
C15_ForcedShift ==
    (Computed /\ SchedConfig(s_in).forced_shift.some) =>
        /\ \A sh \in SchedShiftChoices :
              s_out = compute(SchedConfig(s_in), s_in.num_steps, sh, s_in.timesteps,
                              s_in.scheduler_explicit)
        /\ s_out = compute(SchedConfig(s_in), s_in.num_steps,
                           SchedConfig(s_in).forced_shift.v, s_in.timesteps,
                           s_in.scheduler_explicit)
        /\ (/\ s_in.variant = "acestep-v15-turbo-shift3"
            /\ s_in.scheduler_override = NoneStr
            /\ s_in.timesteps = NoneSeq)
              => s_out = Ok(LinearRef(s_in.num_steps, RInt(3)))

C15_Witness ==
    /\ s_pc = "computed"
    /\ s_in.variant = "acestep-v15-turbo-shift3"
    /\ s_in.scheduler_override = NoneStr
    /\ s_in.timesteps = NoneSeq
    /\ s_in.shift = One
    /\ s_in.num_steps = 2
    /\ s_out = Ok(<<One, Rat(3, 4), Zero>>)

\* The evaluation values of a schedule: all entries but the terminal one.
EvalValues(sched) == SubSeq(sched, 1, Len(sched) - 1)

\* C17 (as stated): under with_terminal, feeding the evaluation values of a
\* schedule S that compute returned (entries 0..N-1, without the terminal) back
\* in as user timesteps makes compute return S.
C17_RoundTripEvalValues ==
    (Computed /\ s_out.ok /\ SchedConfig(s_in).custom_timesteps = "with_terminal") =>
        compute(SchedConfig(s_in), s_in.num_steps, s_in.shift,
                Some(EvalValues(s_out.sched)), s_in.scheduler_explicit) = s_out

\* C17 (amended): under with_terminal, feeding the whole of a schedule S that
\* compute returned, terminal entry included, back in as user timesteps makes
\* compute return S.
C17_RoundTripWholeSchedule ==
    (Computed /\ s_out.ok /\ SchedConfig(s_in).custom_timesteps = "with_terminal") =>
        compute(SchedConfig(s_in), s_in.num_steps, s_in.shift,
                Some(s_out.sched), s_in.scheduler_explicit) = s_out

C17_Witness ==
    /\ s_pc = "computed"
    /\ s_in.variant = "acestep-v15-sft"
    /\ s_in.scheduler_override = NoneStr
    /\ s_in.timesteps = NoneSeq
    /\ s_in.num_steps = 2
    /\ s_in.shift = RInt(3)
    /\ s_out.sched = <<One, Rat(3, 4), Zero>>
    /\ _try_custom(SchedConfig(s_in), s_out.sched) = Some(s_out.sched)
    /\ _try_custom(SchedConfig(s_in), EvalValues(s_out.sched)) = Some(<<One, Rat(3, 4)>>)

\* compute was given user timesteps that a strip_zeros or map_nearest variant
\* accepts (mode is the variant's custom_timesteps).
Accepted(mode) ==
    /\ Computed
    /\ SchedConfig(s_in).custom_timesteps = mode
    /\ s_in.timesteps.some
    /\ ~Rejected(SchedConfig(s_in), s_in.timesteps.v)

\* Index of the last non-zero entry of a sequence that has one.
LastNonZero(ts_list) ==
    CHOOSE k \in 1..Len(ts_list) :
        ts_list[k] # Zero /\ \A j \in (k + 1)..Len(ts_list) : ts_list[j] = Zero

\* At most 20 evaluation entries, each the table member closest to the input
\* entry at the same position, table members unchanged.
MappedToNearest ==
    LET in == s_in.timesteps.v
        k == LastNonZero(in)
        m == IF k > 20 THEN 20 ELSE k
        out == s_out.sched
        table == {TURBO_VALID_TIMESTEPS[j] : j \in 1..Len(TURBO_VALID_TIMESTEPS)}
        d(x, y) == RAbs(RSub(x, y))
    IN  /\ s_out.ok
        /\ Len(out) = m + 1
        /\ Len(out) - 1 <= 20
        /\ \A i \in 1..m :
              /\ out[i] \in table
              /\ \A x \in table : RLe(d(out[i], in[i]), d(x, in[i]))
              /\ in[i] \in table => out[i] = in[i]

\* C18 (as stated): under map_nearest the schedule has at most 20 evaluation
\* entries and each is the member of the fixed 19-entry reference table closest
\* to the input entry; input entries already in the table are unchanged.
C18_MapNearest19 ==
    Accepted("map_nearest") =>
        Len(TURBO_VALID_TIMESTEPS) = 19 /\ MappedToNearest

\* C18 (amended): as above, with the reference table of 20 distinct entries.
C18_MapNearest20 ==
    Accepted("map_nearest") =>
        /\ Len(TURBO_VALID_TIMESTEPS) = 20
        /\ Cardinality({TURBO_VALID_TIMESTEPS[j] : j \in 1..20}) = 20
        /\ MappedToNearest

C18_Witness ==
    /\ s_pc = "computed"
    /\ s_in.variant = "acestep-v15-turbo"
    /\ s_in.timesteps = Some(LongTimesteps)
    /\ s_out.ok
    /\ Len(s_out.sched) = 21
    /\ s_out.sched[1] = Rat(21, 22)
    /\ s_out.sched[20] = Rat(1, 8)
    /\ s_out.sched[21] = Zero

\* compute called as in s_in, with ts as the user timesteps
ComputeWith(ts) ==
    compute(SchedConfig(s_in), s_in.num_steps, s_in.shift, Some(ts),
            s_in.scheduler_explicit)

\* C19: under strip_zeros and map_nearest all trailing zeros of the user
\* sequence are removed; when nothing remains the sequence is invalid (the
\* default computation runs); otherwise exactly one 0.0 is appended: the last
\* entry is 0.0, the second-to-last is not zero, and the same user sequence
\* with or without trailing zeros gives the same schedule.
C19_StripAndTerminal ==
    (/\ Computed
     /\ SchedConfig(s_in).custom_timesteps \in {"strip_zeros", "map_nearest"}
     /\ s_in.timesteps.some) =>
        LET in == s_in.timesteps.v
            out == s_out.sched
            n == Len(out)
        IN  IF \A i \in 1..Len(in) : in[i] = Zero
            THEN s_out = compute(SchedConfig(s_in), s_in.num_steps, s_in.shift,
                                 NoneSeq, s_in.scheduler_explicit)
            ELSE \A core \in {SubSeq(in, 1, LastNonZero(in))} :
                 /\ s_out.ok
                 /\ n >= 2
                 /\ out[n] = Zero
                 /\ out[n - 1] # Zero
                 /\ ComputeWith(core) = s_out
                 /\ ComputeWith(core \o <<Zero, Zero>>) = s_out
                 /\ SchedConfig(s_in).custom_timesteps = "strip_zeros"
                      => out = core \o <<Zero>>

C19_Witness ==
    /\ s_pc = "computed"
    /\ s_in.variant = "acestep-v15-turbo-continuous"
    /\ s_in.timesteps = Some(<<Rat(4, 5), Rat(3, 10), Zero, Zero>>)
    /\ s_out = Ok(<<Rat(4, 5), Rat(3, 10), Zero>>)

\* compute took the default strategy of the given timestep_mode.
DefaultStrategy(mode) ==
    /\ Computed
    /\ SchedConfig(s_in).timestep_mode = mode
    /\ NoUsableTimesteps(SchedConfig(s_in), s_in.timesteps)

\* C21: in discrete mode with 8 steps compute returns the 8-value table of the
\* supported shift (1, 2 or 3) nearest to the forced or given shift, followed
\* by 0.0: shifts up to and including 1.5 take the table of 1.0, shifts up to
\* and including 2.5 the table of 2.0, all larger ones the table of 3.0; no
\* shift makes the call fail.
C21_DiscreteTable ==
    (DefaultStrategy("discrete") /\ s_in.num_steps = 8) =>
        LET s == UsedShift(s_in)
            k == IF RLe(s, Rat(3, 2)) THEN 1 ELSE IF RLe(s, Rat(5, 2)) THEN 2 ELSE 3
        IN  /\ s_out = Ok(TURBO_SHIFT_TIMESTEPS(RInt(k)) \o <<Zero>>)
            /\ Len(s_out.sched) = 9

C21_Witness ==
    /\ s_pc = "computed"
    /\ s_in.variant = "acestep-v15-turbo"
    /\ s_in.scheduler_override = NoneStr
    /\ s_in.timesteps = NoneSeq
    /\ s_in.num_steps = 8
    /\ s_in.shift = Rat(5, 2)
    /\ s_out.ok
    /\ s_out.sched[2] = Rat(14, 15)
    /\ s_out.sched[9] = Zero

\* C22: in continuous mode with a shift_range (lo, hi) no shift makes the call
\* fail; a shift below lo gives the schedule of lo and a shift above hi the
\* schedule of hi; the schedule has N+1 entries, entry i < N being
\* s*t/(1+(s-1)*t) for t = (N-i)/N with s the clamped shift, the last one 0.0.
C22_ContinuousClamp ==
    (DefaultStrategy("continuous") /\ SchedConfig(s_in).shift_range.some) =>
        LET lo == SchedConfig(s_in).shift_range.v[1]
            hi == SchedConfig(s_in).shift_range.v[2]
            given == UsedShift(s_in)
            s == IF RLt(given, lo) THEN lo ELSE IF RLt(hi, given) THEN hi ELSE given
            N == s_in.num_steps
            out == s_out.sched
            at(sh) == compute(SchedConfig(s_in), N, sh, s_in.timesteps,
                              s_in.scheduler_explicit)
        IN  /\ s_out.ok
            /\ Len(out) = N + 1
            /\ out[N + 1] = Zero
            /\ \A i \in 0..(N - 1) :
                  LET t == Rat(N - i, N)
                  IN  out[i + 1] = RDiv(RMul(s, t), RAdd(One, RMul(RSub(s, One), t)))
            /\ RLt(given, lo) => s_out = at(lo)
            /\ RLt(hi, given) => s_out = at(hi)

C22_Witness ==
    /\ s_pc = "computed"
    /\ s_in.variant = "acestep-v15-turbo-continuous"
    /\ s_in.scheduler_override = NoneStr
    /\ s_in.timesteps = NoneSeq
    /\ s_in.num_steps = 2
    /\ s_in.shift = RInt(6)
    /\ s_out = Ok(<<One, Rat(5, 6), Zero>>)

\* s*t/(1+(s-1)*t)
Remapped(s, t) == RDiv(RMul(s, t), RAdd(One, RMul(RSub(s, One), t)))

\* C23: the linear schedule with shift 1 is the N+1 equally spaced values from
\* 1 to 0; with a shift s other than 1 each value t becomes s*t/(1+(s-1)*t),
\* which keeps the endpoints 1 and 0 and puts every interior value above t for
\* s > 1 and below t for s < 1, further from t the further s is from 1.
C23_LinearRemap ==
    DefaultStrategy("linear") =>
        LET s == UsedShift(s_in)
            N == s_in.num_steps
            out == s_out.sched
        IN  /\ s_out.ok
            /\ Len(out) = N + 1
            /\ out[1] = One
            /\ N >= 1 => out[N + 1] = Zero
            /\ N >= 1 => \A i \in 0..N :
                  out[i + 1] = IF s = One THEN Rat(N - i, N) ELSE Remapped(s, Rat(N - i, N))
            /\ \A i \in 1..(N - 1) : \A t \in {Rat(N - i, N)} :
                  /\ RLt(One, s) => RLt(t, out[i + 1])
                  /\ RLt(s, One) => RLt(out[i + 1], t)
                  /\ \A s2 \in SchedShiftChoices :
                        /\ (RLe(One, s) /\ RLt(s, s2)) => RLt(out[i + 1], Remapped(s2, t))
                        /\ (RLe(s, One) /\ RLt(s2, s)) => RLt(Remapped(s2, t), out[i + 1])

C23_Witness ==
    /\ s_pc = "computed"
    /\ s_in.variant = "acestep-v15-base"
    /\ s_in.scheduler_override = NoneStr
    /\ s_in.num_steps = 4
    /\ s_in.shift = RInt(2)
    /\ s_out = Ok(<<One, Rat(6, 7), Rat(2, 3), Rat(2, 5), Zero>>)

\* C25: every schedule compute returns for a step count >= 1 and a shift > 0,
\* computed by default or normalized from user timesteps, is strictly
\* decreasing from its first entry to its terminal.
C25_StrictlyDecreasing ==
    (Computed /\ s_out.ok /\ s_in.num_steps >= 1 /\ RLt(Zero, s_in.shift)) =>
        \A i \in 1..(Len(s_out.sched) - 1) : RLt(s_out.sched[i + 1], s_out.sched[i])

\* C33: for a schedule of length >= 2 and any t_start, truncate returns a
\* contiguous suffix of its input, entries unchanged and in order, that ends
\* with the input's terminal entry and has at least 2 entries; truncating the
\* result again with the same t_start returns it unchanged.
C33_TruncateSuffix ==
    (s_pc = "truncated" /\ Len(s_out.sched) >= 2) =>
        LET in == s_out.sched
            n == Len(in)
            out == s_trunc.sched
        IN  /\ \E k \in 1..(n - 1) : out = [i \in 1..(n - k + 1) |-> in[k + i - 1]]
            /\ Len(out) >= 2
            /\ out[Len(out)] = in[n]
            /\ truncate(out, s_trunc.t_start) = out

\* t_start within 1e-6 below the entry 1/2: the suffix starts at that entry
C33_Witness ==
    /\ s_pc = "truncated"
    /\ s_out.sched = <<One, Rat(3, 4), Rat(1, 2), Rat(1, 4), Zero>>
    /\ s_trunc.t_start = Rat(499999, 1000000)
    /\ s_trunc.sched = <<Rat(1, 2), Rat(1, 4), Zero>>
    /\ truncate(s_trunc.sched, s_trunc.t_start) = s_trunc.sched

\* C32: for a variant whose custom_timesteps mode is none (acestep-v15-base)
\* the schedule compute returns does not depend on the user timesteps: calls
\* that differ only in that argument (absent, empty, too short, well formed,
\* unordered, long) return the same result, the default computation's.
C32_TimestepsIgnored ==
    (Computed /\ SchedConfig(s_in).custom_timesteps = "none") =>
        \A ts \in SchedTimestepChoices :
            compute(SchedConfig(s_in), s_in.num_steps, s_in.shift, ts,
                    s_in.scheduler_explicit) = s_out

C32_Witness ==
    /\ Computed
    /\ s_in.variant = "acestep-v15-base"
    /\ s_in.scheduler_override = NoneStr
    /\ s_in.timesteps = Some(<<One, Rat(1, 2), Zero>>)
    /\ s_in.num_steps = 4
    /\ s_in.shift = One
    /\ s_out = Ok(<<One, Rat(3, 4), Rat(1, 2), Rat(1, 4), Zero>>)

(* ------------------------------------------------------------------ *)
(* Run-level claims on the schedule                                    *)
(* ------------------------------------------------------------------ *)
DiscreteStepsError == "ValueError: discrete scheduler only supports 8 steps"

\* C12: a run with an explicitly chosen discrete scheduler and a step count
\* other than 8 fails before any collaborator operation (prepare_condition,
\* prepare_noise, decoder) has been invoked.
C12_FailsBeforeCollaborators ==
    (pc = "failed" /\ error = DiscreteStepsError) =>
        /\ calls.prepare_condition = 0
        /\ calls.prepare_noise = 0
        /\ calls.decoder = 0

ScheduleBuilt == pc \in {"initial_latent", "cfg_setup", "loop", "output", "done"}

\* C16: a scheduler override gives a derived config that differs from the
\* registered one in timestep_mode only; the registry is not changed, so a run
\* without override sees the registered timestep_mode; and a forced_shift of the
\* registered config still replaces the caller's shift in the overridden mode.
C16_OverrideOnlyMode ==
    /\ registry = MODEL_VARIANT_CONFIGS
    /\ (InRun /\ req.variant \in VariantNames) =>
          LET base == MODEL_VARIANT_CONFIGS[req.variant]
              o == req.scheduler_override
              mode == IF o.some /\ o.v \in {"linear", "discrete", "continuous"}
                      THEN o.v ELSE base.timestep_mode
              derived == [base EXCEPT !.timestep_mode = mode]
              full == compute(derived, infer_steps, base.forced_shift.v,
                              req.timesteps, o.some).sched
          IN  /\ config = derived
              /\ (ScheduleBuilt /\ base.forced_shift.some) =>
                    schedule = IF req.init_latents /\ RLt(req.t_start, One)
                               THEN truncate(full, req.t_start)
                               ELSE full

C16_Witness ==
    /\ pc = "done"
    /\ req.variant = "acestep-v15-turbo-shift3"
    /\ req.scheduler_override = Some("discrete")
    /\ req.shift = Some(RInt(2))
    /\ req.infer_steps = Some(8)
    /\ req.timesteps = NoneSeq
    /\ ~req.init_latents
    /\ registry[req.variant].timestep_mode = "linear"
    /\ config.timestep_mode = "discrete"
    /\ config.forced_shift = Some(RInt(3))
    /\ schedule = TURBO_SHIFT_TIMESTEPS(RInt(3)) \o <<Zero>>

\* The run was given a user sequence of at least two entries and the variant
\* takes user sequences with their terminal.
UserScheduleGiven ==
    /\ InRun
    /\ req.variant \in VariantNames
    /\ MODEL_VARIANT_CONFIGS[req.variant].custom_timesteps = "with_terminal"
    /\ req.timesteps.some
    /\ Len(req.timesteps.v) >= 2

Resumed == req.init_latents /\ RLt(req.t_start, One)

\* C20 (as stated): under with_terminal a user sequence of at least two entries
\* is the schedule, whatever the step count, shift and timestep_mode: the run
\* executes len(user sequence) - 1 steps and raises no step-count error.
C20_UserScheduleSteps ==
    UserScheduleGiven =>
        /\ error # DiscreteStepsError
        /\ ScheduleBuilt => num_steps = Len(req.timesteps.v) - 1
        /\ pc = "done" => calls.decoder = Len(req.timesteps.v) - 1

\* C20 (amended): as above, except that a run resumed from initial latents with
\* t_start < 1 executes the steps of the truncated user sequence.
C20_UserSchedulePrecedence ==
    UserScheduleGiven =>
        LET given == req.timesteps.v
            expected == IF Resumed THEN truncate(given, req.t_start) ELSE given
        IN  /\ error # DiscreteStepsError
            /\ ScheduleBuilt =>
                  /\ schedule = expected
                  /\ num_steps = Len(expected) - 1
                  /\ ~Resumed => num_steps = Len(given) - 1
            /\ pc = "done" => calls.decoder = Len(expected) - 1

C20_Witness ==
    /\ pc = "done"
    /\ req.variant = "acestep-v15-sft"
    /\ req.scheduler_override = Some("discrete")
    /\ req.infer_steps = Some(2)
    /\ req.shift = Some(RInt(2))
    /\ req.timesteps = Some(<<One, Rat(1, 2), Rat(1, 4), Zero>>)
    /\ ~req.init_latents
    /\ schedule = <<One, Rat(1, 2), Rat(1, 4), Zero>>
    /\ calls.decoder = 3

\* C24: every schedule a run uses (compute's result, truncated when resuming)
\* has at least 2 entries, so every completed run makes at least one decoder
\* call and returns the output of get_x0_from_noise.
C24_AtLeastTwoEntries ==
    /\ ScheduleBuilt => Len(schedule) >= 2
    /\ pc = "done" =>
          /\ calls.decoder >= 1
          /\ result.op = "get_x0_from_noise"

CollaboratorErrors ==
    {"prepare_condition raised", "prepare_noise raised", "decoder raised",
     "get_x0_from_noise raised", "renoise raised"}

\* C26: when a collaborator raises, the run ends with that failure: nothing is
\* returned and nothing is retried, so a decoder failure at step k leaves the
\* decoder invoked exactly k + 1 times.
C26_CollaboratorFailurePropagates ==
    error \in CollaboratorErrors =>
        /\ pc = "failed"
        /\ result = NoLatent
        /\ error = "prepare_condition raised" =>
              /\ calls.prepare_condition \in {1, 2}
              /\ calls.prepare_noise = 0 /\ calls.decoder = 0
        /\ error = "prepare_noise raised" =>
              calls.prepare_noise = 1 /\ calls.decoder = 0
        /\ error \in {"decoder raised", "get_x0_from_noise raised", "renoise raised"} =>
              calls.decoder = step_idx + 1
        /\ error = "decoder raised" =>
              calls.get_x0_from_noise + calls.renoise = (IF req.infer_method = "sde" THEN 2 * step_idx ELSE 0)
        /\ error = "get_x0_from_noise raised" => calls.renoise <= step_idx
        /\ error = "renoise raised" => calls.renoise = step_idx + 1

C26_Witness ==
    /\ pc = "failed"
    /\ error = "decoder raised"
    /\ step_idx = 1
    /\ calls.decoder = 2
    /\ result = NoLatent
\* C29: with CFG active, the prediction used for the update of a step is the
\* guidance-combined prediction exactly when cfg_interval_start <= t_curr <=
\* cfg_interval_end (both inclusive, t_curr the current schedule value) and the
\* conditional half of the decoder output otherwise; the guidance function is
\* called on the steps inside the interval only.
InInterval(t) == RLe(req.cfg_interval_start, t) /\ RLe(t, req.cfg_interval_end)
\* the prediction inside the latent that the step's update produced
UsedPrediction(x) == IF x.op = "renoise" THEN x.x.v ELSE x.v
GuidanceFn == IF req.use_adg THEN "adg_forward" ELSE "apg_forward"

C29_GuidanceInterval ==
    (do_cfg_guidance /\ pc \in {"loop", "output", "done"} /\ calls.decoder > 0) =>
        LET n == calls.decoder
            t_curr == schedule[n]
        IN  /\ decoder_call.timestep.val = t_curr
            /\ vt = IF InInterval(t_curr)
                    THEN Guided(GuidanceFn, n, req.diffusion_guidance_sale)
                    ELSE PredCond(n)
            /\ UsedPrediction(xt) = vt
            /\ calls.guidance = Cardinality({i \in 1..n : InInterval(schedule[i])})

\* a step exactly on the lower bound of the interval, after steps above the
\* upper bound that were not guided
C29_Witness ==
    /\ pc = "loop"
    /\ do_cfg_guidance
    /\ calls.decoder > 0
    /\ req.cfg_interval_start = Rat(3, 10)
    /\ decoder_call.timestep.val = req.cfg_interval_start
    /\ schedule[1] = One
    /\ vt.op = "apg_forward"
    /\ UsedPrediction(xt) = vt
    /\ calls.guidance < calls.decoder

\* C30: initial latent selection.  With init_latents supplied prepare_noise is
\* never called and the first decoder invocation receives the supplied latent;
\* without init_latents prepare_noise is called exactly once with the seed and
\* t_start has no effect: the schedule is compute's result, never truncated.
\* The schedule is truncated only when init_latents is supplied and
\* t_start < 1.0 (compared when the schedule has just been built and when the
\* run has finished).
FirstStepDone == pc \in {"loop", "output", "done"} /\ calls.decoder = 1
LatentChosen == pc \in {"cfg_setup", "loop", "output", "done"}

C30_InitialLatent ==
    (InRun /\ req.variant \in VariantNames) =>
        /\ req.init_latents =>
              /\ calls.prepare_noise = 0
              /\ FirstStepDone => decoder_call.hidden_states.x = InitLatents
        /\ ~req.init_latents =>
              /\ calls.prepare_noise <= 1
              /\ LatentChosen => calls.prepare_noise = 1
              /\ FirstStepDone => decoder_call.hidden_states.x = PrepareNoise("seed")
        /\ pc \in {"initial_latent", "done"} =>
              \A full \in {compute(config, infer_steps, shift, req.timesteps,
                                    req.scheduler_override.some).sched} :
                  /\ ~req.init_latents => schedule = full
                  /\ ~RLt(req.t_start, One) => schedule = full
                  /\ (req.init_latents /\ RLt(req.t_start, One)) =>
                        schedule = truncate(full, req.t_start)

\* a finished run without init_latents and with t_start = 0.5: noise was
\* prepared once and all 8 steps of the schedule ran
C30_Witness ==
    /\ pc = "done"
    /\ ~req.init_latents
    /\ req.t_start = Rat(1, 2)
    /\ req.infer_steps = Some(8)
    /\ calls.prepare_noise = 1
    /\ Len(schedule) = 9
    /\ schedule[1] = One
    /\ calls.decoder = 8

\* C34: under SDE stepping, at every non-final step the re-noise target is
\* strictly lower than the timestep at which the decoder was just evaluated,
\* for every variant, on truncated schedules and with shift # 1.
C34_RenoiseBelowCurrent ==
    (InRun /\ calls.renoise > 0) =>
        RLt(renoise_call.t, schedule[renoise_call.step + 1])

\* C35: at every decoder invocation the batch dimension of the latent input,
\* the timestep vector, the attention mask, the encoder hidden states, the
\* encoder attention mask and the context latent are equal: 2*B with CFG
\* active and B otherwise, before, at and after the cover switch.
C35_DecoderBatch ==
    (InRun /\ calls.decoder > 0) =>
        \A b \in {IF do_cfg_guidance THEN 2 * req.bsz ELSE req.bsz} :
            /\ decoder_call.hidden_states.batch = b
            /\ decoder_call.timestep.batch = b
            /\ decoder_call.attention_mask.batch = b
            /\ decoder_call.encoder_hidden_states.batch = b
            /\ decoder_call.encoder_attention_mask.batch = b
            /\ decoder_call.context_latents.batch = b

\* a CFG run with cover blending, two steps after the switch
C35_Witness ==
    /\ pc = "loop"
    /\ do_cfg_guidance
    /\ calls.decoder > 0
    /\ Blending
    /\ cover_steps > 0
    /\ decoder_call.step = cover_steps + 1
    /\ decoder_call.encoder_hidden_states = encoder_hidden_states_non_cover
    /\ decoder_call.hidden_states.batch = 4
    /\ decoder_call.context_latents.batch = 4

\* C28: across the runs of one process the guidance plugin is located and
\* executed at most once after its first successful load: once the cache is
\* filled it stays filled, every later _load_guidance_module call succeeds
\* without executing the plugin again; a call with an empty cache either
\* executes the plugin once and fills the cache, or fails with ImportError and
\* leaves the cache empty, so that the next call resolves the file again.
LoaderCalled == calls'.load_guidance = calls.load_guidance + 1

C28_Step ==
    /\ _guidance_module =>
         /\ _guidance_module'
         /\ calls'.exec_module <= calls.exec_module
         /\ LoaderCalled => pc' # "failed"
    /\ (~_guidance_module /\ LoaderCalled) =>
         \/ /\ _guidance_module'
            /\ calls'.exec_module = calls.exec_module + 1
            /\ pc' # "failed"
         \/ /\ ~_guidance_module'
            /\ calls'.exec_module = calls.exec_module
            /\ pc' = "failed"
            /\ error' = "ImportError: cannot find apg_guidance.py"
    /\ ~LoaderCalled => _guidance_module' = _guidance_module

C28_PluginLoadedOnce == [][C28_Step]_vars

\* a run that found the plugin cached by an earlier run
C28_Witness ==
    /\ pc = "loop"
    /\ _guidance_module
    /\ do_cfg_guidance
    /\ calls.load_guidance = 1
    /\ calls.exec_module = 0

(* ------------------------------------------------------------------ *)
(* Service-layer claims                                                *)
(* ------------------------------------------------------------------ *)
\* C27: the service layer serializes every use of the shared model: at no
\* time are two operations (queued tasks, re-noising for resume, decoding a
\* stored latent, scoring) inside a call into the model.
C27_ModelUseSerialized == Cardinality(InModel) <= 1

\* C31: TaskManager runs the submitted task functions one at a time in
\* submission order (the order of the executor's queue): at most one task is
\* RUNNING at any moment, and a task submitted later is still PENDING as long
\* as an earlier-submitted task has not reached COMPLETED or ERROR.
Terminal(id) == _tasks[id].status \in {"completed", "error"}

C31_OneAtATimeInOrder ==
    /\ Cardinality({id \in 1..Len(_tasks) : _tasks[id].status = "running"}) <= 1
    /\ \A i, j \in 1..Len(_executor.queue) :
          (i < j /\ _tasks[_executor.queue[j]].status # "pending") =>
              Terminal(_executor.queue[i])

\* two handlers overlapped in submit: the task created second was queued
\* first, ran first and has finished; the other one is running
C31_Witness ==
    /\ _executor.queue = <<2, 1>>
    /\ _tasks[2].status = "completed"
    /\ _tasks[1].status = "running"

\* C36: a task's status only moves PENDING -> RUNNING -> COMPLETED or
\* PENDING -> RUNNING -> ERROR, and COMPLETED and ERROR are never left; a
\* COMPLETED task has progress 1.0 and an ERROR task a non-null error message;
\* every task put on the executor's queue eventually reaches COMPLETED or
\* ERROR, the worker running and the task functions returning or raising.
StatusMoves == {<<"pending", "running">>, <<"running", "completed">>, <<"running", "error">>}
Queued(id) == \E i \in 1..Len(_executor.queue) : _executor.queue[i] = id

C36_StatusStep ==
    /\ Len(_tasks') >= Len(_tasks)
    /\ \A id \in 1..Len(_tasks) :
          \/ _tasks'[id].status = _tasks[id].status
          \/ <<_tasks[id].status, _tasks'[id].status>> \in StatusMoves
    /\ \A id \in (Len(_tasks) + 1)..Len(_tasks') : _tasks'[id].status = "pending"

C36_StatusFields ==
    \A id \in 1..Len(_tasks) :
        /\ _tasks[id].status = "completed" => _tasks[id].progress = One
        /\ _tasks[id].status = "error" => _tasks[id].error.some

CleanupStep == cleanup_pc = "txn" /\ cleanup_pc' = "remove_files"

C37_Step ==
    /\ CleanupStep =>
          \A id \in LatentIds :
              /\ (_env[id].present /\ ~_env'[id].present) =>
                    (~_env[id].pinned /\ clock - _env[id].created_at > LatentTtl)
              /\ (_env[id].present /\ _env[id].pinned) => _env'[id] = _env[id]
    /\ \A id \in LatentIds :
          (_env[id].present /\ _env[id].pinned /\ id \in files /\ _env'[id].present) =>
              id \in files'

C37_PinnedSurvivesCleanup == [][C37_Step]_vars

\* a pinned record older than the TTL after a cleanup pass that removed
\* another record
C37_Witness ==
    /\ cleanup_pc = "remove_files"
    /\ _env[1].present /\ _env[1].pinned
    /\ clock - _env[1].created_at > LatentTtl
    /\ 1 \in files
    /\ expired_paths = {2}
    /\ ~_env[2].present

(* ------------------------------------------------------------------ *)
(* Websocket claims                                                    *)
(* ------------------------------------------------------------------ *)
\* C38: once the endpoint has called unregister_ws for a disconnected
\* websocket, no later broadcast for any task has that websocket among its
\* targets, the tasks it subscribed to by task_id included.
Broadcasts == last_broadcast' # last_broadcast

C38_Step ==
    Broadcasts => \A ws \in WebSockets :
                      ws_pc[ws] = "unregistered" => ws \notin last_broadcast'.targets

C38_NoBroadcastAfterUnregister == [][C38_Step]_vars

(* ------------------------------------------------------------------ *)
(* Pipeline claims                                                     *)
(* ------------------------------------------------------------------ *)
\* C39: a pipeline request that passes start_pipeline's stage-graph
\* validation passes run_pipeline's stage validation, and every latent a stage
\* reads was stored by a strictly earlier stage; in particular a refine stage
\* that supplies src_latent_id is accepted by the router and does not make
\* run_pipeline fail with an invalid input_stage error.
Posted == pl_pc # "idle"
RouterAccepted == pl_pc \in {"submitted", "run", "done", "failed"}
SuppliesLatent(b) == \A i \in 1..Len(b) : b[i].type = "generate" \/ (b[i].type = "refine" /\ b[i].src_latent_id)

C39_AcceptedRuns ==
    /\ pl_error \notin {"invalid input_stage", "no latents"}
    /\ (pl_pc \in {"run", "done"} /\ pl_read.some) => (pl_read.v \in stage_latents /\ pl_read.v < pl_idx - 1)

C39_PipelineValidation ==
    /\ RouterAccepted => C39_AcceptedRuns
    /\ (Posted /\ SuppliesLatent(pl_body)) => (RouterAccepted /\ pl_error # "invalid input_stage")

====
